---- MODULE Spec2Model ----
(***************************************************************************)
(* A model of raphdb: the RESP frame codec (connection/frame.rs), the      *)
(* command dispatcher (connection/cmd), the in-memory TTL store            *)
(* (server/key_value_store/mini_redis.rs) with its purge task and the      *)
(* append-log store (server/key_value_store/simple_store.rs).              *)
(*                                                                         *)
(* Byte strings are sequences of one-character strings.  Cursor positions  *)
(* and file offsets are 0-based as in the source; the byte at offset i of  *)
(* a sequence b is b[i + 1].                                               *)
(***************************************************************************)
EXTENDS Naturals, Integers, Sequences, FiniteSets, TLC

VARIABLES
    backend,      \* which KeyValueStore get_kv_store built
    now,          \* Instant::now(), in milliseconds
    entries,      \* mini_redis State.entries
    expirations,  \* mini_redis State.expirations: set of [when, id, key]
    next_id,      \* mini_redis State.next_id
    shutdown,     \* mini_redis State.shutdown
    permit,       \* the pending permit of Shared.background_task (Notify)
    ppc,          \* position of purge_expired_tasks
    pwhen,        \* the deadline purge_expired_tasks sleeps until
    file,         \* bytes of log.raphdb
    index,        \* simple_store State.index
    wpc,          \* position of each connection worker
    wcmd,         \* the command a worker is applying
    wtmp,         \* a worker's locals between two steps of one store call
    replies,      \* frames written to each connection, in order
    hist,         \* history: what the store calls and applies did
    frm,          \* codec: the frame under test
    buf,          \* codec: the byte buffer under test
    build,        \* codec: how the crate was built (overflow checks, atoi version)
    fphase,       \* codec: which operation ran last
    fres,         \* codec: its result
    lpc,          \* position of start_server
    permits,      \* permits available in limit_connections
    nread,        \* connection workers waiting in their read
    nbusy,        \* connection workers applying a command
    spc,          \* position of a caller inside shutdown_purge_task
    sig,          \* the broadcast channel and the Shutdown of each subscriber
    psr           \* a Parser, with what its calls returned

lsnVars == <<lpc, permits, nread, nbusy>>
auxVars == <<spc, sig, psr>>
srvVars == <<backend, now, entries, expirations, next_id, shutdown, permit, ppc,
             pwhen, file, index, wpc, wcmd, wtmp, replies, hist, lsnVars, auxVars>>
codecVars == <<frm, buf, build, fphase, fres>>
vars == <<backend, now, entries, expirations, next_id, shutdown, permit, ppc,
          pwhen, file, index, wpc, wcmd, wtmp, replies, hist,
          frm, buf, build, fphase, fres, lpc, permits, nread, nbusy, spc, sig, psr>>

----------------------------------------------------------------------------
(* Bounds of the model.                                                    *)

NWorkers == 2
MaxCmds == 2
MaxTicks == 3
MaxFaults == 1
MaxText == 2
MaxElems == 2
MaxExtra == 2
MaxBuf == 3
MaxArgs == 3
MaxRestarts == 1
MaxShutdownCalls == 2
MaxSends == 2
MaxRecvCalls == 2
WordBits == 4
TickMs == 50000

(* Program constants.                                                      *)

TTL == 100000
MAX_CONNECTIONS == 250

----------------------------------------------------------------------------
(* Bytes and options.                                                      *)

CR == "\r"
LF == "\n"
COMMA == ","
BAD == "\\xFF"

None == [some |-> FALSE]
Some(v) == [some |-> TRUE, v |-> v]

Ok(v) == [ok |-> TRUE, v |-> v]
Err(m) == [ok |-> FALSE, err |-> m]

SetMin(S) == CHOOSE m \in S : \A o \in S : m <= o
SetMax(S) == CHOOSE m \in S : \A o \in S : m >= o
Max2(a, b) == IF a >= b THEN a ELSE b

(* Sequences over alphabet A of length at most n.                          *)
SeqsUpTo(A, n) == UNION {[1..m -> A] : m \in 0..n}

(* s[(from+1)..to] in 0-based half-open terms: bytes from..to-1.           *)
Slice(s, from, to) == IF to <= from THEN <<>> ELSE SubSeq(s, from + 1, to)

RECURSIVE Concat(_)
Concat(ss) == IF ss = <<>> THEN <<>> ELSE Head(ss) \o Concat(Tail(ss))

(* True when bytes p occur in s as a contiguous run.                       *)
Contains(s, p) ==
    \E i \in 0..(Len(s) - Len(p)) : Slice(s, i, i + Len(p)) = p

(* str::split(","): the pieces between separators; "" gives one empty piece. *)
RECURSIVE SplitOn(_, _)
SplitOn(s, c) ==
    IF \A i \in 1..Len(s) : s[i] # c
    THEN <<s>>
    ELSE LET i == SetMin({j \in 1..Len(s) : s[j] = c})
         IN <<SubSeq(s, 1, i - 1)>> \o SplitOn(SubSeq(s, i + 1, Len(s)), c)

(* std::str::from_utf8 succeeds: BAD stands for a byte that is not UTF-8.  *)
IsUtf8(s) == \A i \in 1..Len(s) : s[i] # BAD

----------------------------------------------------------------------------
(* Frames (connection/frame.rs): [t |-> tag, s |-> text or bytes,         *)
(* n |-> integer, a |-> elements]; a variant uses its own field only.      *)

Simple(s) == [t |-> "Simple", s |-> s, n |-> 0, a |-> <<>>]
Error(s) == [t |-> "Error", s |-> s, n |-> 0, a |-> <<>>]
Integer(n) == [t |-> "Integer", s |-> <<>>, n |-> n, a |-> <<>>]
Bulk(b) == [t |-> "Bulk", s |-> b, n |-> 0, a |-> <<>>]
Null == [t |-> "Null", s |-> <<>>, n |-> 0, a |-> <<>>]
Array(a) == [t |-> "Array", s |-> <<>>, n |-> 0, a |-> a]

(* impl PartialEq<Frame> for Frame.                                        *)
RECURSIVE FrameEq(_, _)
FrameEq(f, g) ==
    IF f.t = g.t /\ f.t \in {"Simple", "Error", "Bulk"} THEN f.s = g.s
    ELSE IF f.t = g.t /\ f.t = "Integer" THEN f.n = g.n
    ELSE IF f.t = "Array" /\ g.t = "Array"
    THEN /\ Len(f.a) = Len(g.a)
         /\ \A i \in 1..Len(f.a) : FrameEq(f.a[i], g.a[i])
    ELSE f.t = g.t

----------------------------------------------------------------------------
(* The frame codec (connection/frame.rs).  A cursor step returns           *)
(* [res, pos, rd, v]: res is "Ok", "Incomplete" (FrameError::Incomplete),  *)
(* "Error" (FrameError::Other) or "Panic"; pos is the cursor position      *)
(* after the step; rd is the largest buffer index read so far (-1: none);  *)
(* v is the value returned.                                                *)

(* u64::MAX and usize::MAX (a 64-bit target), and isize::MAX.              *)
U64_MAX == 2 ^ WordBits - 1
ISIZE_MAX == 2 ^ (WordBits - 1) - 1

CurOk(pos, rd, v) == [res |-> "Ok", pos |-> pos, rd |-> rd, v |-> v]
CurFail(res, pos, rd) == [res |-> res, pos |-> pos, rd |-> rd, v |-> <<>>]

Digits == <<"0", "1", "2", "3", "4", "5", "6", "7", "8", "9">>
IsDigit(c) == \E d \in 0..9 : Digits[d + 1] = c
DigitVal(c) == CHOOSE d \in 0..9 : Digits[d + 1] = c

(* u64::to_string / usize::to_string.                                      *)
RECURSIVE ToDecimal(_)
ToDecimal(n) ==
    IF n < 10 THEN <<Digits[n + 1]>>
    ELSE ToDecimal(n \div 10) \o <<Digits[(n % 10) + 1]>>

(* atoi's digit loop from 1-based index i: checked_mul(10) then            *)
(* checked_add(digit), or checked_sub(digit) after a minus sign; an        *)
(* overflow turns the number into None and the loop goes on counting.      *)
(* index is the number of bytes used.                                      *)
RECURSIVE Radix10Checked(_, _, _, _)
Radix10Checked(text, i, number, minus) ==
    IF i > Len(text) \/ ~IsDigit(text[i])
    THEN [number |-> number, index |-> i - 1]
    ELSE LET d == DigitVal(text[i])
             nx == IF ~number.some \/ number.v * 10 > U64_MAX THEN None
                   ELSE IF minus
                   THEN (IF number.v * 10 - d < 0 THEN None
                         ELSE Some(number.v * 10 - d))
                   ELSE (IF number.v * 10 + d > U64_MAX THEN None
                         ELSE Some(number.v * 10 + d))
         IN Radix10Checked(text, i + 1, nx, minus)

(* atoi::atoi::<u64>: the leading digits of text, None when there is none  *)
(* or the value overflows.  The crate version is not pinned by the         *)
(* sources: later versions (signed) also accept one leading '+' or '-'.    *)
Atoi(text, signed) ==
    LET hasSign == signed /\ text # <<>> /\ text[1] \in {"+", "-"}
        offset == IF hasSign THEN 1 ELSE 0
        r == Radix10Checked(text, offset + 1, Some(0), hasSign /\ text[1] = "-")
    IN IF r.index = 0 \/ ~r.number.some THEN None ELSE r.number

PeekU8(b, pos, rd) ==
    IF ~(Len(b) - pos > 0) THEN CurFail("Incomplete", pos, rd)
    ELSE CurOk(pos, Max2(rd, pos), b[pos + 1])

(* A get_u8 that takes the byte without asking has_remaining.              *)
GetU8NoGuard(b, pos, rd) ==
    IF ~(Len(b) - pos > 0) THEN CurFail("Panic", pos, Max2(rd, pos))
    ELSE CurOk(pos + 1, Max2(rd, pos), b[pos + 1])

GetU8(b, pos, rd) ==
    IF ~(Len(b) - pos > 0) THEN CurFail("Incomplete", pos, rd)
    ELSE CurOk(pos + 1, Max2(rd, pos), b[pos + 1])

Skip(b, pos, rd, n) ==
    IF Len(b) - pos < n THEN CurFail("Incomplete", pos, rd)
    ELSE CurOk(pos + n, rd, <<>>)

(* A line scan that runs to the last byte.                                 *)
LineScanEndAtLen(b) == Len(b)

(* get_line: "Scan to the second to last byte".                            *)
LineScanEnd(b) == Len(b) - 1

(* get_line's loop from i: it reads byte i, and byte i + 1 when byte i is  *)
(* '\r'; an index at or past the buffer length panics.                     *)
RECURSIVE ScanLine(_, _, _, _, _)
ScanLine(b, start, i, end, rd) ==
    IF i >= end THEN CurFail("Incomplete", start, rd)
    ELSE IF i >= Len(b) THEN CurFail("Panic", start, Max2(rd, i))
    ELSE IF b[i + 1] # CR THEN ScanLine(b, start, i + 1, end, Max2(rd, i))
    ELSE IF i + 1 >= Len(b) THEN CurFail("Panic", start, Max2(rd, i + 1))
    ELSE IF b[i + 2] = LF THEN CurOk(i + 2, Max2(rd, i + 1), Slice(b, start, i))
    ELSE ScanLine(b, start, i + 1, end, Max2(rd, i + 1))

(* get_line; on an empty buffer len() - 1 underflows: a panic with         *)
(* overflow checks, an out-of-range index without.                         *)
GetLine(b, pos, rd) ==
    IF Len(b) = 0 THEN CurFail("Panic", pos, rd)
    ELSE ScanLine(b, pos, pos, LineScanEnd(b), rd)

GetDecimal(b, pos, rd, bld) ==
    LET line == GetLine(b, pos, rd)
    IN IF line.res # "Ok" THEN line
       ELSE LET n == Atoi(line.v, bld.atoi_signed)
            IN IF n.some THEN CurOk(line.pos, line.rd, n.v)
               ELSE CurFail("Error", line.pos, line.rd)

(* usize arithmetic: a result past usize::MAX panics with overflow checks  *)
(* and wraps without.                                                      *)
WrapUsize(n, bld) ==
    IF n <= U64_MAX THEN Some(n)
    ELSE IF bld.overflow_checks THEN None
    ELSE Some(n % (U64_MAX + 1))

(* check, parse: "skip that number of bytes + 2 (\r\n)".                   *)
BulkSpan(len) == len + 2

(* check: "Skip '-1\r\n'".                                                 *)
NullSpan == 4

(* Frame::check from position pos; CheckElems is its loop over the         *)
(* declared number of array elements.                                      *)
RECURSIVE Check(_, _, _, _), CheckElems(_, _, _, _, _)
(* A loop over the elements that starts counting at 1.                    *)
CheckElemsFromOne(b, pos, rd, count, bld) ==
    IF count <= 1 THEN CurOk(pos, rd, <<>>)
    ELSE LET c == Check(b, pos, rd, bld)
         IN IF c.res # "Ok" THEN c
            ELSE CheckElems(b, c.pos, c.rd, count - 1, bld)

Check(b, pos, rd, bld) ==
    LET t == GetU8(b, pos, rd)
    IN IF t.res # "Ok" THEN t
       ELSE IF t.v \in {"+", "-"}
       THEN LET line == GetLine(b, t.pos, t.rd)
            IN IF line.res # "Ok" THEN line ELSE CurOk(line.pos, line.rd, <<>>)
       ELSE IF t.v = ":"
       THEN LET d == GetDecimal(b, t.pos, t.rd, bld)
            IN IF d.res # "Ok" THEN d ELSE CurOk(d.pos, d.rd, <<>>)
       ELSE IF t.v = "$"
       THEN LET p == PeekU8(b, t.pos, t.rd)
            IN IF p.res # "Ok" THEN p
               ELSE IF p.v = "-" THEN Skip(b, p.pos, p.rd, NullSpan)
               ELSE LET d == GetDecimal(b, p.pos, p.rd, bld)
                    IN IF d.res # "Ok" THEN d
                       ELSE LET n == WrapUsize(BulkSpan(d.v), bld)
                            IN IF ~n.some THEN CurFail("Panic", d.pos, d.rd)
                               ELSE Skip(b, d.pos, d.rd, n.v)
       ELSE IF t.v = "*"
       THEN LET d == GetDecimal(b, t.pos, t.rd, bld)
            IN IF d.res # "Ok" THEN d
               ELSE CheckElems(b, d.pos, d.rd, d.v, bld)
       ELSE CurFail("Error", t.pos, t.rd)

CheckElems(b, pos, rd, count, bld) ==
    IF count = 0 THEN CurOk(pos, rd, <<>>)
    ELSE LET c == Check(b, pos, rd, bld)
         IN IF c.res # "Ok" THEN c
            ELSE CheckElems(b, c.pos, c.rd, count - 1, bld)

(* Frame::parse from position pos; ParseElems is its loop pushing the      *)
(* elements onto out.  Vec::with_capacity panics past isize::MAX (the      *)
(* element size counted as one).                                           *)
RECURSIVE Parse(_, _, _, _), ParseElems(_, _, _, _, _, _)
Parse(b, pos, rd, bld) ==
    LET t == GetU8(b, pos, rd)
    IN IF t.res # "Ok" THEN t
       ELSE IF t.v \in {"+", "-"}
       THEN LET line == GetLine(b, t.pos, t.rd)
            IN IF line.res # "Ok" THEN line
               ELSE IF ~IsUtf8(line.v) THEN CurFail("Error", line.pos, line.rd)
               ELSE CurOk(line.pos, line.rd,
                          IF t.v = "+" THEN Simple(line.v) ELSE Error(line.v))
       ELSE IF t.v = ":"
       THEN LET d == GetDecimal(b, t.pos, t.rd, bld)
            IN IF d.res # "Ok" THEN d ELSE CurOk(d.pos, d.rd, Integer(d.v))
       ELSE IF t.v = "$"
       THEN LET p == PeekU8(b, t.pos, t.rd)
            IN IF p.res # "Ok" THEN p
               ELSE IF p.v = "-"
               THEN LET line == GetLine(b, p.pos, p.rd)
                    IN IF line.res # "Ok" THEN line
                       ELSE IF line.v # <<"-", "1">>
                       THEN CurFail("Error", line.pos, line.rd)
                       ELSE CurOk(line.pos, line.rd, Null)
               ELSE LET d == GetDecimal(b, p.pos, p.rd, bld)
                    IN IF d.res # "Ok" THEN d
                       ELSE LET n == WrapUsize(BulkSpan(d.v), bld)
                            IN IF ~n.some THEN CurFail("Panic", d.pos, d.rd)
                               ELSE IF Len(b) - d.pos < n.v
                               THEN CurFail("Incomplete", d.pos, d.rd)
                               ELSE IF d.v > Len(b) - d.pos
                               THEN CurFail("Panic", d.pos, d.rd)
                               ELSE CurOk(d.pos + n.v,
                                          IF d.v > 0 THEN Max2(d.rd, d.pos + d.v - 1)
                                          ELSE d.rd,
                                          Bulk(Slice(b, d.pos, d.pos + d.v)))
       ELSE IF t.v = "*"
       THEN LET d == GetDecimal(b, t.pos, t.rd, bld)
            IN IF d.res # "Ok" THEN d
               ELSE IF d.v > ISIZE_MAX THEN CurFail("Panic", d.pos, d.rd)
               ELSE ParseElems(b, d.pos, d.rd, d.v, <<>>, bld)
       ELSE CurFail("Panic", t.pos, t.rd)

ParseElems(b, pos, rd, count, out, bld) ==
    IF count = 0 THEN CurOk(pos, rd, Array(out))
    ELSE LET e == Parse(b, pos, rd, bld)
         IN IF e.res # "Ok" THEN e
            ELSE ParseElems(b, e.pos, e.rd, count - 1, Append(out, e.v), bld)

(* A create_bytes that writes only the last digit of an Integer.          *)
CreateBytesOneDigit(f) ==
    CASE f.t = "Simple" -> <<"+">> \o f.s \o <<CR, LF>>
      [] f.t = "Error" -> <<"-">> \o f.s \o <<CR, LF>>
      [] f.t = "Integer" -> <<":", Digits[(f.n % 10) + 1], CR, LF>>
      [] f.t = "Null" -> <<"$", "-", "1", CR, LF>>
      [] f.t = "Bulk" -> <<"$">> \o ToDecimal(Len(f.s)) \o <<CR, LF>> \o f.s \o <<CR, LF>>

(* Frame::create_bytes of a frame that is not an Array.                    *)
CreateBytes(f) ==
    CASE f.t = "Simple" -> <<"+">> \o f.s \o <<CR, LF>>
      [] f.t = "Error" -> <<"-">> \o f.s \o <<CR, LF>>
      [] f.t = "Integer" -> <<":">> \o ToDecimal(f.n) \o <<CR, LF>>
      [] f.t = "Null" -> <<"$", "-", "1", CR, LF>>
      [] f.t = "Bulk" -> <<"$">> \o ToDecimal(Len(f.s)) \o <<CR, LF>> \o f.s \o <<CR, LF>>

(* The encoding of an array of frames that are not arrays: '*', the        *)
(* number of elements, "\r\n", then create_bytes of each element.          *)
ArrayBytes(f) ==
    <<"*">> \o ToDecimal(Len(f.a)) \o <<CR, LF>>
        \o Concat([i \in 1..Len(f.a) |-> CreateBytes(f.a[i])])

EncodingOf(f) == IF f.t = "Array" THEN ArrayBytes(f) ELSE CreateBytes(f)

----------------------------------------------------------------------------
(* The argument parser (connection/parser.rs).  A parser is the array's    *)
(* elements and the number already consumed.                               *)

ParserNew(frame) ==
    IF frame.t = "Array"
    THEN Ok([parts |-> frame.a, i |-> 0])
    ELSE Err("protocol error; expected array")

(* Parser::next: [ok, v, p] with p the advanced parser.                    *)
ParserNext(p) ==
    IF p.i < Len(p.parts)
    THEN [ok |-> TRUE, v |-> p.parts[p.i + 1], p |-> [p EXCEPT !.i = @ + 1]]
    ELSE [ok |-> FALSE, err |-> "EndOfStream", p |-> p]

ParserNextString(p) ==
    LET n == ParserNext(p)
    IN IF ~n.ok THEN n
       ELSE IF n.v.t = "Simple" THEN [ok |-> TRUE, v |-> n.v.s, p |-> n.p]
       ELSE IF n.v.t = "Bulk"
       THEN IF IsUtf8(n.v.s)
            THEN [ok |-> TRUE, v |-> n.v.s, p |-> n.p]
            ELSE [ok |-> FALSE, err |-> "protocol error; invalid string", p |-> n.p]
       ELSE [ok |-> FALSE, err |-> "protocol error; expected simple frame or bulk frame",
             p |-> n.p]

ParserNextBytes(p) ==
    LET n == ParserNext(p)
    IN IF ~n.ok THEN n
       ELSE IF n.v.t \in {"Simple", "Bulk"} THEN [ok |-> TRUE, v |-> n.v.s, p |-> n.p]
       ELSE [ok |-> FALSE, err |-> "protocol error; expected simple frame or bulk frame",
             p |-> n.p]

(* A finish that does not look at what is left.                            *)
ParserFinishAlwaysOk(p) == Ok(p)

(* Parser::finish consumes one more element if there is one.               *)
ParserFinish(p) ==
    IF ~ParserNext(p).ok
    THEN Ok(p)
    ELSE Err("protocol error; expected end of frame, but there was more")

----------------------------------------------------------------------------
(* Commands (connection/cmd).                                              *)

LowerOf(c) ==
    CASE c = "G" -> "g" [] c = "E" -> "e" [] c = "T" -> "t" [] c = "S" -> "s"
      [] c = "P" -> "p" [] c = "I" -> "i" [] c = "N" -> "n" [] OTHER -> c

ToLowercase(s) == [i \in 1..Len(s) |-> LowerOf(s[i])]

GetName == <<"g", "e", "t">>
SetName == <<"s", "e", "t">>

CmdGet(k) == [t |-> "Get", key |-> k, value |-> <<>>]
CmdSet(k, v) == [t |-> "Set", key |-> k, value |-> v]
CmdUnknown(n) == [t |-> "Unknown", key |-> n, value |-> <<>>]
NoCmd == [t |-> "None", key |-> <<>>, value |-> <<>>]

(* Get::parse_frames: [ok, v, p].                                          *)
GetParseFrames(p) ==
    LET k == ParserNextString(p)
    IN IF ~k.ok THEN k ELSE [ok |-> TRUE, v |-> CmdGet(k.v), p |-> k.p]

(* A Set::parse_frames that takes an empty value when none was sent.       *)
SetParseFramesNoValue(p) ==
    LET k == ParserNextString(p)
    IN IF ~k.ok THEN k
       ELSE LET b == ParserNextBytes(k.p)
            IN IF ~b.ok /\ b.err = "EndOfStream"
               THEN [ok |-> TRUE, v |-> CmdSet(k.v, <<>>), p |-> b.p]
               ELSE IF ~b.ok THEN b
               ELSE [ok |-> TRUE, v |-> CmdSet(k.v, b.v), p |-> b.p]

(* Set::parse_frames.                                                      *)
SetParseFrames(p) ==
    LET k == ParserNextString(p)
    IN IF ~k.ok THEN k
       ELSE LET b == ParserNextBytes(k.p)
            IN IF ~b.ok THEN b ELSE [ok |-> TRUE, v |-> CmdSet(k.v, b.v), p |-> b.p]

(* A from_frame whose unknown verb falls through to parser.finish().       *)
FromFrameFinishAll(frame) ==
    LET np == ParserNew(frame)
    IN IF ~np.ok THEN np
       ELSE LET nm == ParserNextString(np.v)
            IN IF ~nm.ok THEN Err(nm.err)
               ELSE LET command_name == ToLowercase(nm.v)
                        c == IF command_name = GetName THEN GetParseFrames(nm.p)
                             ELSE IF command_name = SetName THEN SetParseFrames(nm.p)
                             ELSE [ok |-> TRUE, v |-> CmdUnknown(command_name), p |-> nm.p]
                    IN IF ~c.ok THEN Err(c.err)
                       ELSE IF ~ParserFinish(c.p).ok THEN Err(ParserFinish(c.p).err)
                       ELSE Ok(c.v)

(* Command::from_frame.                                                    *)
FromFrame(frame) ==
    LET np == ParserNew(frame)
    IN IF ~np.ok THEN np
       ELSE LET nm == ParserNextString(np.v)
            IN IF ~nm.ok THEN Err(nm.err)
               ELSE LET command_name == ToLowercase(nm.v)
                        c == IF command_name = GetName THEN GetParseFrames(nm.p)
                             ELSE SetParseFrames(nm.p)
                    IN IF command_name \notin {GetName, SetName}
                       THEN Ok(CmdUnknown(command_name))
                       ELSE IF ~c.ok THEN Err(c.err)
                       ELSE IF ~ParserFinish(c.p).ok THEN Err(ParserFinish(c.p).err)
                       ELSE Ok(c.v)

(* Unknown::apply's reply.                                                 *)
UnknownReply(name) ==
    Error(<<"E", "R", "R", " ", "u", "n", "k", "n", "o", "w", "n", " ",
            "c", "o", "m", "m", "a", "n", "d", " ", "'">> \o name \o <<"'">>)

OkReply == Simple(<<"O", "K">>)

----------------------------------------------------------------------------
(* The model's inputs: keys, values and the frames clients send.           *)

Workers == 1..NWorkers

KeyA == <<"a">>
KeyAB == <<"a", COMMA, "b">>
Keys == {KeyA, KeyAB}
ValX == <<"x">>
ValY == <<"y">>
Vals == {ValX, ValY}

Plain(s) == \A i \in 1..Len(s) : s[i] \notin {COMMA, LF}

InFrames ==
    {Array(<<Bulk(n), Bulk(k)>>) : n \in {GetName, <<"G", "E", "T">>}, k \in Keys}
    \cup {Array(<<Bulk(SetName), Bulk(k), Bulk(v)>>) : k \in Keys, v \in Vals}
    \cup {Array(<<Bulk(<<"P", "I", "N", "G">>)>>),
          Array(<<Bulk(SetName), Bulk(KeyA)>>),
          Array(<<Bulk(GetName), Bulk(KeyA), Bulk(KeyA)>>),
          Array(<<>>),
          Simple(GetName)}

----------------------------------------------------------------------------
(* The in-memory store (server/key_value_store/mini_redis.rs).             *)

Entry(id, data, expires_at) == [id |-> id, data |-> data, expires_at |-> expires_at]
Expiration(when, id, key) == [when |-> when, id |-> id, key |-> key]

(* State::next_expiration: the first key of the BTreeMap, if any.          *)
NextExpiration(exp) ==
    IF exp = {} THEN None ELSE Some(SetMin({e.when : e \in exp}))

(* A get that never finds the key.                                         *)
MemGetNone(ents, key) == Ok(None)

(* MiniRedis::get.                                                         *)
MemGet(ents, key) ==
    IF ents[key].some THEN Ok(Some(ents[key].v.data)) ELSE Ok(None)

(* A set that also tells the purge task of an expiration at the same       *)
(* instant as the earliest one.                                            *)
NotifyNeededOrEqual(exp, when) ==
    IF NextExpiration(exp).some THEN NextExpiration(exp).v >= when ELSE TRUE

(* A set that tells the purge task only of an expiration earlier than the  *)
(* earliest one, never of the first.                                       *)
NotifyNeededNotFirst(exp, when) ==
    IF NextExpiration(exp).some THEN NextExpiration(exp).v > when ELSE FALSE

(* set: whether the purge task must be told, computed before the insert.   *)
NotifyNeeded(exp, when) ==
    IF NextExpiration(exp).some THEN NextExpiration(exp).v > when ELSE TRUE

(* A set that leaves the replaced entry's expiration behind.               *)
ClearPrevKept(exp, prev) == exp

(* set: drop the expiration of the entry that was replaced.                *)
ClearPrev(exp, prev) ==
    IF prev.some /\ prev.v.expires_at.some
    THEN exp \ {e \in exp : e.when = prev.v.expires_at.v /\ e.id = prev.v.id}
    ELSE exp

(* A purge loop that leaves the tuples expiring exactly now.               *)
ExpiredBefore(exp, t) == {e \in exp : e.when < t}

(* purge_expired_keys: the tuples its loop removes, those not after now.   *)
Expired(exp, t) == {e \in exp : ~(e.when > t)}

(* A purge_expired_keys that removes the tuples and leaves the entries.     *)
PurgeEntriesKept(ents, exp, t) == ents

(* purge_expired_keys: entries.remove(key) for every removed tuple.        *)
PurgeEntries(ents, exp, t) ==
    [k \in DOMAIN ents |->
        IF \E e \in Expired(exp, t) : e.key = k THEN None ELSE ents[k]]

----------------------------------------------------------------------------
(* The append-log store (server/key_value_store/simple_store.rs).          *)

(* set: the record put into buf.                                           *)
Record(key, value) == key \o <<COMMA>> \o value \o <<LF>>

MaxRecordLen == SetMax({Len(Record(k, v)) : k \in Keys, v \in Vals})

(* A set that opens the file for writing without append: the bytes go to   *)
(* the start of the file.                                                  *)
WriteAllAtStart(f, bytes) ==
    bytes \o (IF Len(f) > Len(bytes) THEN SubSeq(f, Len(bytes) + 1, Len(f)) ELSE <<>>)

(* set: OpenOptions::new().append(true), then write_all: the bytes go to   *)
(* the end of the file.                                                    *)
WriteAll(f, bytes) == f \o bytes

(* A set that takes the length of the file after its write.               *)
AppendOffsetAfterWrite(f, rec) == Len(f) + Len(rec)

(* set: len = file.metadata()?.len(), taken before write_all(rec).         *)
AppendOffset(f, rec) == Len(f)

(* BufRead::read_line from offset: up to and including the first LF, or    *)
(* to the end of the file.                                                 *)
ReadLine(f, offset) ==
    IF offset >= Len(f) THEN <<>>
    ELSE IF \E i \in (offset + 1)..Len(f) : f[i] = LF
    THEN SubSeq(f, offset + 1, SetMin({i \in (offset + 1)..Len(f) : f[i] = LF}))
    ELSE SubSeq(f, offset + 1, Len(f))

(* get: the value taken from the fields of the line.                       *)
ValueOf(key_value) == Concat(Tail(key_value))

(* SimpleStore::get.                                                       *)
LogGet(idx, f, key) ==
    IF ~idx[key].some THEN Ok(None)
    ELSE LET data == ReadLine(f, idx[key].v)
             key_value == SplitOn(data, COMMA)
         IN IF ~IsUtf8(data) THEN Err("stream did not contain valid UTF-8")
            ELSE IF Len(key_value) < 2 THEN Err("log data is corrupted")
            ELSE IF key_value[1] # key THEN Err("log data key does not match index key")
            ELSE Ok(Some(ValueOf(key_value)))

(* Lines::next_line: the line without its '\n' and without a '\r' before  *)
(* that '\n'.                                                              *)
LineOf(raw) ==
    IF raw # <<>> /\ raw[Len(raw)] = LF
    THEN LET b == SubSeq(raw, 1, Len(raw) - 1)
         IN IF b # <<>> /\ b[Len(b)] = CR THEN SubSeq(b, 1, Len(b) - 1) ELSE b
    ELSE raw

(* recover: the loop over the lines of the file from position pos, with    *)
(* byte_offset as the code counts it.  Keys no client of the model asks    *)
(* for are left out of idx.                                                *)
RECURSIVE RecoverFrom(_, _, _, _)
RecoverFrom(f, pos, byte_offset, idx) ==
    IF pos >= Len(f) THEN Ok(idx)
    ELSE LET raw == ReadLine(f, pos)
             line == LineOf(raw)
             key_value == SplitOn(line, COMMA)
         IN IF ~IsUtf8(raw) THEN Err("stream did not contain valid UTF-8")
            ELSE IF Len(key_value) < 2 THEN Err("log file data is corrupted")
            ELSE RecoverFrom(f, pos + Len(raw), byte_offset + Len(line) + 1,
                             IF key_value[1] \in DOMAIN idx
                             THEN [idx EXCEPT ![key_value[1]] = Some(byte_offset)]
                             ELSE idx)

(* SimpleStore::recover.                                                   *)
Recover(f) == RecoverFrom(f, 0, 0, [k \in Keys |-> None])

----------------------------------------------------------------------------
(* The server: connection workers applying commands to the store.          *)

MiniRedis == "mini-redis"
SimpleStore == "simple-store"

NoTmp == [off |-> 0, notify |-> FALSE, resp |-> Null, held |-> None]

(* History: ncmds counts the frames read over all connections, done[w] the *)
(* apply calls of w that returned, failed[w] whether the last of them      *)
(* returned a store error; memLast[k] is the latest set on k of the        *)
(* in-memory store; nSets[k], okSet[k] and lastAppend[k] are the set calls *)
(* on k of the append-log store, the value of the one whose index insert   *)
(* came last and the offset of the last record a successful set appended;  *)
(* snap is what nSets, okSet and lastAppend were at the last restart.      *)
HistInit ==
    [ncmds |-> 0,
     done |-> [w \in Workers |-> 0],
     failed |-> [w \in Workers |-> FALSE],
     memLast |-> [k \in Keys |-> None],
     nSets |-> [k \in Keys |-> 0],
     okSet |-> [k \in Keys |-> None],
     lastAppend |-> [k \in Keys |-> None],
     faults |-> 0,
     restarts |-> 0,
     snap |-> None,
     calls |-> 0]

(* A start_server that made the semaphore one permit too large.            *)
LsnInitExtraPermit ==
    /\ lpc = "accept"
    /\ permits = MAX_CONNECTIONS + 1
    /\ nread = 0
    /\ nbusy = 0

(* start_server after it built the Listener: every permit available, no    *)
(* connection accepted yet.                                                *)
LsnInit ==
    /\ lpc = "accept"
    /\ permits = MAX_CONNECTIONS
    /\ nread = 0
    /\ nbusy = 0

(* No call of shutdown_purge_task under way, no broadcast channel and no    *)
(* Parser made yet.                                                        *)
NoSig == [made |-> FALSE, open |-> FALSE, sent |-> 0,
          sub |-> [w \in Workers |->
                     [pc |-> "none", shutdown |-> FALSE, from |-> 0, recvs |-> 0,
                      waited |-> FALSE]]]

NoCall == [op |-> "none", res |-> "none", before |-> 0]

NoParser == [made |-> FALSE, parts |-> <<>>, i |-> 0, out |-> <<>>, last |-> NoCall]

(* What a call on the Parser returned: Ok, EndOfStream, or another error.  *)
CallResult(r) ==
    IF r.ok THEN "Ok" ELSE IF r.err = "EndOfStream" THEN "EndOfStream" ELSE "Other"

AuxInit ==
    /\ spc = "idle"
    /\ sig = NoSig
    /\ psr = NoParser

SrvInit ==
    /\ LsnInit
    /\ AuxInit
    /\ backend \in {MiniRedis, SimpleStore}
    /\ now = 0
    /\ entries = [k \in Keys |-> None]
    /\ expirations = {}
    /\ next_id = 0
    /\ shutdown = FALSE
    /\ permit = FALSE
    /\ ppc = IF backend = MiniRedis THEN "loop" ELSE "none"
    /\ pwhen = 0
    /\ file = <<>>
    /\ index = [k \in Keys |-> None]
    /\ wpc = [w \in Workers |-> "read"]
    /\ wcmd = [w \in Workers |-> NoCmd]
    /\ wtmp = [w \in Workers |-> NoTmp]
    /\ replies = [w \in Workers |-> <<>>]
    /\ hist = HistInit

memVars == <<entries, expirations, next_id, shutdown, permit, ppc, pwhen>>
logVars == <<file, index>>

(* An apply call of worker w returned, with a store error or without.      *)
Applied(h, w, failed) ==
    [h EXCEPT !.done[w] = @ + 1, !.failed[w] = failed]

(* The clock advances.  Only the in-memory store reads it.                 *)
Tick ==
    /\ backend = MiniRedis
    /\ now < MaxTicks * TickMs
    /\ now' = now + TickMs
    /\ UNCHANGED <<backend, entries, expirations, next_id, shutdown, permit, ppc, pwhen,
                   file, index, wpc, wcmd, wtmp, replies, hist, codecVars, lsnVars, auxVars>>

(* The worker reads a frame and builds the command; a frame from_frame     *)
(* rejects ends the worker without a reply.                                *)
Recv(w, f) ==
    /\ wpc[w] = "read"
    /\ hist.ncmds < MaxCmds
    /\ LET r == FromFrame(f)
       IN /\ wpc' = [wpc EXCEPT ![w] = IF r.ok THEN "apply" ELSE "closed"]
          /\ wcmd' = [wcmd EXCEPT ![w] = IF r.ok THEN r.v ELSE NoCmd]
    /\ hist' = [hist EXCEPT !.ncmds = @ + 1]
    /\ wtmp' = [wtmp EXCEPT ![w] = NoTmp]
    /\ UNCHANGED <<backend, now, memVars, logVars, replies, codecVars, lsnVars, auxVars>>

(* The peer closes the connection: read_frame returns None.                *)
Disconnect(w) ==
    /\ wpc[w] = "read"
    /\ wpc' = [wpc EXCEPT ![w] = "closed"]
    /\ wcmd' = [wcmd EXCEPT ![w] = NoCmd]
    /\ wtmp' = [wtmp EXCEPT ![w] = NoTmp]
    /\ UNCHANGED <<backend, now, memVars, logVars, replies, hist, codecVars, lsnVars, auxVars>>

(* Unknown::apply: one Error frame, no store access.                       *)
ApplyUnknown(w) ==
    /\ wpc[w] = "apply"
    /\ wcmd[w].t = "Unknown"
    /\ replies' = [replies EXCEPT ![w] = Append(@, UnknownReply(wcmd[w].key))]
    /\ wpc' = [wpc EXCEPT ![w] = "read"]
    /\ hist' = Applied(hist, w, FALSE)
    /\ wcmd' = [wcmd EXCEPT ![w] = NoCmd]
    /\ UNCHANGED <<backend, now, memVars, logVars, wtmp, codecVars, lsnVars, auxVars>>

(* A get that removes the entry it finds expired, with its tuple.          *)
MemGetStepLazyExpire(w) ==
    /\ backend = MiniRedis
    /\ wpc[w] = "apply"
    /\ wcmd[w].t = "Get"
    /\ LET key == wcmd[w].key
           gone == entries[key].some /\ ~(entries[key].v.expires_at.v > now)
       IN /\ wtmp' = [wtmp EXCEPT ![w] =
                 [NoTmp EXCEPT !.resp = IF entries[key].some /\ ~gone
                                        THEN Bulk(entries[key].v.data) ELSE Null,
                               !.held = IF entries[key].some
                                        THEN Some(entries[key].v.data) ELSE None]]
          /\ entries' = IF gone THEN [entries EXCEPT ![key] = None] ELSE entries
          /\ expirations' = IF gone THEN {e \in expirations : e.key # key}
                            ELSE expirations
    /\ wpc' = [wpc EXCEPT ![w] = "reply"]
    /\ UNCHANGED <<backend, now, next_id, shutdown, permit, ppc, pwhen, logVars, wcmd,
                   replies, hist, codecVars, lsnVars, auxVars>>

(* Get::apply on the in-memory store: kv.get under the lock.               *)
MemGetStep(w) ==
    /\ backend = MiniRedis
    /\ wpc[w] = "apply"
    /\ wcmd[w].t = "Get"
    /\ LET r == MemGet(entries, wcmd[w].key)
       IN wtmp' = [wtmp EXCEPT ![w] =
              [NoTmp EXCEPT !.resp = IF r.v.some THEN Bulk(r.v.v) ELSE Null,
                            !.held = IF entries[wcmd[w].key].some
                                     THEN Some(entries[wcmd[w].key].v.data) ELSE None]]
    /\ wpc' = [wpc EXCEPT ![w] = "reply"]
    /\ UNCHANGED <<backend, now, memVars, logVars, wcmd, replies, hist, codecVars, lsnVars, auxVars>>

(* A set that takes next_id as its id and leaves the counter as it is.      *)
MemSetLockedSameId(w) ==
    /\ backend = MiniRedis
    /\ wpc[w] = "apply"
    /\ wcmd[w].t = "Set"
    /\ LET key == wcmd[w].key
           id == next_id
           when == now + TTL
           notify == NotifyNeeded(expirations, when)
           prev == entries[key]
       IN /\ next_id' = next_id
          /\ entries' = [entries EXCEPT ![key] = Some(Entry(id, wcmd[w].value, Some(when)))]
          /\ expirations' = ClearPrev(expirations \cup {Expiration(when, id, key)}, prev)
          /\ wtmp' = [wtmp EXCEPT ![w] = [NoTmp EXCEPT !.notify = notify, !.resp = OkReply]]
          /\ wpc' = [wpc EXCEPT ![w] = IF notify THEN "notify" ELSE "reply"]
          /\ hist' = [hist EXCEPT !.memLast[key] = Some([val |-> wcmd[w].value, at |-> now])]
    /\ UNCHANGED <<backend, now, shutdown, permit, ppc, pwhen, logVars, wcmd, replies, codecVars, lsnVars, auxVars>>

(* Set::apply on the in-memory store: the part of set under the lock.      *)
MemSetLocked(w) ==
    /\ backend = MiniRedis
    /\ wpc[w] = "apply"
    /\ wcmd[w].t = "Set"
    /\ LET key == wcmd[w].key
           id == next_id
           when == now + TTL
           notify == NotifyNeeded(expirations, when)
           prev == entries[key]
       IN /\ next_id' = next_id + 1
          /\ entries' = [entries EXCEPT ![key] = Some(Entry(id, wcmd[w].value, Some(when)))]
          /\ expirations' = ClearPrev(expirations \cup {Expiration(when, id, key)}, prev)
          /\ wtmp' = [wtmp EXCEPT ![w] = [NoTmp EXCEPT !.notify = notify, !.resp = OkReply]]
          /\ wpc' = [wpc EXCEPT ![w] = IF notify THEN "notify" ELSE "reply"]
          /\ hist' = [hist EXCEPT !.memLast[key] = Some([val |-> wcmd[w].value, at |-> now])]
    /\ UNCHANGED <<backend, now, shutdown, permit, ppc, pwhen, logVars, wcmd, replies, codecVars, lsnVars, auxVars>>

(* set: notify_one after the lock was dropped.                             *)
MemSetNotify(w) ==
    /\ wpc[w] = "notify"
    /\ permit' = TRUE
    /\ wpc' = [wpc EXCEPT ![w] = "reply"]
    /\ UNCHANGED <<backend, now, entries, expirations, next_id, shutdown, ppc, pwhen,
                   logVars, wcmd, wtmp, replies, hist, codecVars, lsnVars, auxVars>>

(* Get::apply on the append-log store: kv.get, and the early return of     *)
(* apply when it fails.                                                    *)
LogGetStep(w) ==
    /\ backend = SimpleStore
    /\ wpc[w] = "apply"
    /\ wcmd[w].t = "Get"
    /\ LET r == LogGet(index, file, wcmd[w].key)
       IN IF r.ok
          THEN /\ wtmp' = [wtmp EXCEPT ![w] =
                      [NoTmp EXCEPT !.resp = IF r.v.some THEN Bulk(r.v.v) ELSE Null,
                                    !.held = hist.okSet[wcmd[w].key]]]
               /\ wpc' = [wpc EXCEPT ![w] = "reply"]
               /\ hist' = hist
          ELSE /\ wtmp' = wtmp
               /\ wpc' = [wpc EXCEPT ![w] = "closed"]
               /\ hist' = Applied(hist, w, TRUE)
    /\ wcmd' = [wcmd EXCEPT ![w] = IF LogGet(index, file, wcmd[w].key).ok THEN @ ELSE NoCmd]
    /\ UNCHANGED <<backend, now, memVars, logVars, replies, codecVars, lsnVars, auxVars>>

(* Set::apply on the append-log store: the append under write_mutex.       *)
LogSetAppend(w) ==
    /\ backend = SimpleStore
    /\ wpc[w] = "apply"
    /\ wcmd[w].t = "Set"
    /\ file' = WriteAll(file, Record(wcmd[w].key, wcmd[w].value))
    /\ wtmp' = [wtmp EXCEPT ![w] =
            [NoTmp EXCEPT !.off = AppendOffset(file, Record(wcmd[w].key, wcmd[w].value)),
                          !.resp = OkReply]]
    /\ wpc' = [wpc EXCEPT ![w] = "index"]
    /\ hist' = [hist EXCEPT !.nSets[wcmd[w].key] = @ + 1,
                            !.lastAppend[wcmd[w].key] = Some(Len(file))]
    /\ UNCHANGED <<backend, now, memVars, index, wcmd, replies, codecVars, lsnVars, auxVars>>

(* A set that fails after n bytes and has put the offset into the index    *)
(* before it wrote.                                                        *)
LogSetFailIndexed(w, n) ==
    /\ backend = SimpleStore
    /\ wpc[w] = "apply"
    /\ wcmd[w].t = "Set"
    /\ hist.faults < MaxFaults
    /\ n \in 0..Len(Record(wcmd[w].key, wcmd[w].value))
    /\ file' = WriteAll(file, SubSeq(Record(wcmd[w].key, wcmd[w].value), 1, n))
    /\ index' = [index EXCEPT ![wcmd[w].key] = Some(Len(file))]
    /\ wpc' = [wpc EXCEPT ![w] = "closed"]
    /\ hist' = [Applied(hist, w, TRUE) EXCEPT
                    !.faults = @ + 1, !.nSets[wcmd[w].key] = @ + 1]
    /\ wcmd' = [wcmd EXCEPT ![w] = NoCmd]
    /\ UNCHANGED <<backend, now, memVars, wtmp, replies, codecVars, lsnVars, auxVars>>

(* set: open, metadata, write_all or sync_all fails after n bytes of the   *)
(* record reached the file; set and apply return the error.                *)
LogSetFail(w, n) ==
    /\ backend = SimpleStore
    /\ wpc[w] = "apply"
    /\ wcmd[w].t = "Set"
    /\ hist.faults < MaxFaults
    /\ n \in 0..Len(Record(wcmd[w].key, wcmd[w].value))
    /\ file' = WriteAll(file, SubSeq(Record(wcmd[w].key, wcmd[w].value), 1, n))
    /\ wpc' = [wpc EXCEPT ![w] = "closed"]
    /\ hist' = [Applied(hist, w, TRUE) EXCEPT
                    !.faults = @ + 1, !.nSets[wcmd[w].key] = @ + 1]
    /\ wcmd' = [wcmd EXCEPT ![w] = NoCmd]
    /\ UNCHANGED <<backend, now, memVars, index, wtmp, replies, codecVars, lsnVars, auxVars>>

(* set: the index insert under the write lock, after write_mutex was       *)
(* released.                                                               *)
LogSetIndex(w) ==
    /\ wpc[w] = "index"
    /\ index' = [index EXCEPT ![wcmd[w].key] = Some(wtmp[w].off)]
    /\ wpc' = [wpc EXCEPT ![w] = "reply"]
    /\ hist' = [hist EXCEPT !.okSet[wcmd[w].key] = Some(wcmd[w].value)]
    /\ UNCHANGED <<backend, now, memVars, file, wcmd, wtmp, replies, codecVars, lsnVars, auxVars>>

(* An apply that returns Ok without having written the response.           *)
ReplyNotWritten(w) ==
    /\ wpc[w] = "reply"
    /\ replies' = replies
    /\ wpc' = [wpc EXCEPT ![w] = "read"]
    /\ hist' = Applied(hist, w, FALSE)
    /\ wcmd' = [wcmd EXCEPT ![w] = NoCmd]
    /\ wtmp' = [wtmp EXCEPT ![w] = NoTmp]
    /\ UNCHANGED <<backend, now, memVars, logVars, codecVars, lsnVars, auxVars>>

(* apply: write_frame(&response) after the store call returned Ok.         *)
Reply(w) ==
    /\ wpc[w] = "reply"
    /\ replies' = [replies EXCEPT ![w] = Append(@, wtmp[w].resp)]
    /\ wpc' = [wpc EXCEPT ![w] = "read"]
    /\ hist' = Applied(hist, w, FALSE)
    /\ wcmd' = [wcmd EXCEPT ![w] = NoCmd]
    /\ wtmp' = [wtmp EXCEPT ![w] = NoTmp]
    /\ UNCHANGED <<backend, now, memVars, logVars, codecVars, lsnVars, auxVars>>

(* purge_expired_tasks: the loop condition !shared.is_shutdown().          *)
PurgeLoop ==
    /\ ppc = "loop"
    /\ ppc' = IF shutdown THEN "done" ELSE "purge"
    /\ UNCHANGED <<backend, now, entries, expirations, next_id, shutdown, permit, pwhen,
                   logVars, wpc, wcmd, wtmp, replies, hist, codecVars, lsnVars, auxVars>>

(* purge_expired_tasks: one call of purge_expired_keys, then wait.         *)
PurgeRun ==
    /\ ppc = "purge"
    /\ IF shutdown
       THEN /\ UNCHANGED <<entries, expirations, pwhen, codecVars, lsnVars, auxVars>>
            /\ ppc' = "park"
       ELSE /\ entries' = PurgeEntries(entries, expirations, now)
            /\ expirations' = expirations \ Expired(expirations, now)
            /\ IF NextExpiration(expirations').some
               THEN ppc' = "sleep" /\ pwhen' = NextExpiration(expirations').v
               ELSE ppc' = "park" /\ pwhen' = pwhen
    /\ UNCHANGED <<backend, now, next_id, shutdown, permit, logVars, wpc, wcmd, wtmp,
                   replies, hist, codecVars, lsnVars, auxVars>>

(* purge_expired_tasks: sleep_until(when) completes.                       *)
PurgeTimer ==
    /\ ppc = "sleep"
    /\ now >= pwhen
    /\ ppc' = "loop"
    /\ UNCHANGED <<backend, now, entries, expirations, next_id, shutdown, permit, pwhen,
                   logVars, wpc, wcmd, wtmp, replies, hist, codecVars, lsnVars, auxVars>>

(* purge_expired_tasks: background_task.notified() completes, taking the   *)
(* permit.                                                                 *)
PurgeNotified ==
    /\ ppc \in {"sleep", "park"}
    /\ permit
    /\ permit' = FALSE
    /\ ppc' = "loop"
    /\ UNCHANGED <<backend, now, entries, expirations, next_id, shutdown, pwhen,
                   logVars, wpc, wcmd, wtmp, replies, hist, codecVars, lsnVars, auxVars>>

(* DropGuard::drop -> MiniRedis::shutdown_purge_task, once start_server    *)
(* returns: every worker has finished.                                     *)
ShutdownPurgeTask ==
    /\ backend = MiniRedis
    /\ \A w \in Workers : wpc[w] = "closed"
    /\ ~shutdown
    /\ shutdown' = TRUE
    /\ permit' = TRUE
    /\ UNCHANGED <<backend, now, entries, expirations, next_id, ppc, pwhen,
                   logVars, wpc, wcmd, wtmp, replies, hist, codecVars, lsnVars, auxVars>>

NoResult == [op |-> "none", res |-> "none", pos |-> 0, rd |-> -1, frame |-> Null]

CodecIdle ==
    /\ frm = Null
    /\ buf = <<>>
    /\ build = [overflow_checks |-> FALSE, atoi_signed |-> FALSE]
    /\ fphase = "none"
    /\ fres = NoResult

(* The server on the in-memory store.                                      *)
InitMem == SrvInit /\ backend = MiniRedis /\ CodecIdle

NextMem ==
    \/ Tick
    \/ \E w \in Workers, f \in InFrames : Recv(w, f)
    \/ \E w \in Workers : Disconnect(w)
    \/ \E w \in Workers : ApplyUnknown(w)
    \/ \E w \in Workers : MemGetStep(w)
    \/ \E w \in Workers : MemSetLocked(w)
    \/ \E w \in Workers : MemSetNotify(w)
    \/ \E w \in Workers : Reply(w)
    \/ PurgeLoop
    \/ PurgeRun
    \/ PurgeTimer
    \/ PurgeNotified
    \/ ShutdownPurgeTask

SpecMem == InitMem /\ [][NextMem]_vars

(* The same under fair scheduling: the purge task takes each step it can   *)
(* take, a set that left the lock reaches its notify_one, and time passes. *)
SpecMemFair ==
    /\ InitMem
    /\ [][NextMem]_vars
    /\ WF_vars(PurgeLoop)
    /\ WF_vars(PurgeRun)
    /\ WF_vars(PurgeTimer)
    /\ WF_vars(PurgeNotified)
    /\ WF_vars(Tick)
    /\ \A w \in Workers : WF_vars(MemSetNotify(w))

(* shutdown_purge_task called on the store itself, at any moment and more  *)
(* than once: first state.shutdown = true under the lock.                  *)
ShutdownLock ==
    /\ backend = MiniRedis
    /\ spc = "idle"
    /\ hist.calls < MaxShutdownCalls
    /\ shutdown' = TRUE
    /\ spc' = "notify"
    /\ hist' = [hist EXCEPT !.calls = @ + 1]
    /\ UNCHANGED <<backend, now, entries, expirations, next_id, permit, ppc, pwhen,
                   logVars, wpc, wcmd, wtmp, replies, codecVars, lsnVars, sig, psr>>

(* A shutdown_purge_task that sets the flag and does not notify.           *)
ShutdownNotifyNone ==
    /\ spc = "notify"
    /\ spc' = "idle"
    /\ UNCHANGED <<backend, now, entries, expirations, next_id, shutdown, permit, ppc, pwhen,
                   logVars, wpc, wcmd, wtmp, replies, hist, codecVars, lsnVars, sig, psr>>

(* shutdown_purge_task: background_task.notify_one() after the lock was    *)
(* dropped.                                                                *)
ShutdownNotify ==
    /\ spc = "notify"
    /\ permit' = TRUE
    /\ spc' = "idle"
    /\ UNCHANGED <<backend, now, entries, expirations, next_id, shutdown, ppc, pwhen,
                   logVars, wpc, wcmd, wtmp, replies, hist, codecVars, lsnVars, sig, psr>>

(* The in-memory store with its purge task, clients that set one key, and  *)
(* callers of shutdown_purge_task.                                         *)
PurgeFrames == {Array(<<Bulk(SetName), Bulk(KeyA), Bulk(ValX)>>)}

NextPurge ==
    \/ Tick
    \/ \E w \in Workers, f \in PurgeFrames : Recv(w, f)
    \/ \E w \in Workers : MemSetLocked(w)
    \/ \E w \in Workers : MemSetNotify(w)
    \/ \E w \in Workers : Reply(w)
    \/ PurgeLoop
    \/ PurgeRun
    \/ PurgeTimer
    \/ PurgeNotified
    \/ ShutdownLock
    \/ ShutdownNotify

(* Fair scheduling: the purge task and a caller inside shutdown_purge_task *)
(* take their next step.                                                   *)
SpecPurge ==
    /\ InitMem
    /\ [][NextPurge]_vars
    /\ WF_vars(PurgeLoop)
    /\ WF_vars(PurgeRun)
    /\ WF_vars(PurgeNotified)
    /\ WF_vars(ShutdownNotify)

(* The server on the append-log store.                                     *)
InitLog == SrvInit /\ backend = SimpleStore /\ CodecIdle

NextLog ==
    \/ \E w \in Workers, f \in InFrames : Recv(w, f)
    \/ \E w \in Workers : Disconnect(w)
    \/ \E w \in Workers : ApplyUnknown(w)
    \/ \E w \in Workers : LogGetStep(w)
    \/ \E w \in Workers : LogSetAppend(w)
    \/ \E w \in Workers, n \in 0..MaxRecordLen : LogSetFail(w, n)
    \/ \E w \in Workers : LogSetIndex(w)
    \/ \E w \in Workers : Reply(w)

SpecLog == InitLog /\ [][NextLog]_vars

(* The server on either store, its clients sending GET and SET.            *)
NextStores ==
    \/ Tick
    \/ \E w \in Workers, f \in InFrames : Recv(w, f)
    \/ \E w \in Workers : Disconnect(w)
    \/ \E w \in Workers : ApplyUnknown(w)
    \/ \E w \in Workers : MemGetStep(w)
    \/ \E w \in Workers : MemSetLocked(w)
    \/ \E w \in Workers : MemSetNotify(w)
    \/ \E w \in Workers : LogGetStep(w)
    \/ \E w \in Workers : LogSetAppend(w)
    \/ \E w \in Workers, n \in 0..MaxRecordLen : LogSetFail(w, n)
    \/ \E w \in Workers : LogSetIndex(w)
    \/ \E w \in Workers : Reply(w)
    \/ PurgeLoop
    \/ PurgeRun
    \/ PurgeTimer
    \/ PurgeNotified
    \/ ShutdownPurgeTask

InitStores == SrvInit /\ CodecIdle

SpecStores == InitStores /\ [][NextStores]_vars

(* Clients that only set: the frames SET k v.                              *)
SetFrames == {Array(<<Bulk(SetName), Bulk(k), Bulk(v)>>) : k \in Keys, v \in Vals}

(* The server on either store, its clients setting keys concurrently.      *)
NextSets ==
    \/ Tick
    \/ \E w \in Workers, f \in SetFrames : Recv(w, f)
    \/ \E w \in Workers : Disconnect(w)
    \/ \E w \in Workers : MemSetLocked(w)
    \/ \E w \in Workers : MemSetNotify(w)
    \/ \E w \in Workers : LogSetAppend(w)
    \/ \E w \in Workers, n \in 0..MaxRecordLen : LogSetFail(w, n)
    \/ \E w \in Workers : LogSetIndex(w)
    \/ \E w \in Workers : Reply(w)
    \/ PurgeLoop
    \/ PurgeRun
    \/ PurgeTimer
    \/ PurgeNotified
    \/ ShutdownPurgeTask

InitSets == SrvInit /\ CodecIdle

SpecSets == InitSets /\ [][NextSets]_vars

(* The process ends, at any moment, and is started again on the same       *)
(* log.raphdb: SimpleStore::new finds the file and recovers the index;     *)
(* when recover fails, start_server panics in its expect.  The connections *)
(* of the old process are gone and the new one serves new ones.            *)
Restart ==
    /\ backend = SimpleStore
    /\ hist.restarts < MaxRestarts
    /\ LET r == Recover(file)
       IN /\ index' = IF r.ok THEN r.v ELSE [k \in Keys |-> None]
          /\ lpc' = IF r.ok THEN "accept" ELSE "panicked"
          /\ wpc' = [w \in Workers |-> IF r.ok THEN "read" ELSE "closed"]
    /\ wcmd' = [w \in Workers |-> NoCmd]
    /\ wtmp' = [w \in Workers |-> NoTmp]
    /\ replies' = [w \in Workers |-> <<>>]
    /\ hist' = [hist EXCEPT !.restarts = @ + 1,
                            !.done = [w \in Workers |-> 0],
                            !.failed = [w \in Workers |-> FALSE],
                            !.snap = Some([nSets |-> hist.nSets, okSet |-> hist.okSet,
                                           lastAppend |-> hist.lastAppend])]
    /\ UNCHANGED <<backend, now, memVars, file, codecVars, permits, nread, nbusy, auxVars>>

(* Values that end in '\r'.                                                *)
ValCR == <<"x", CR>>
CrFrames == {Array(<<Bulk(SetName), Bulk(k), Bulk(ValCR)>>) : k \in Keys}

(* The server on the append-log store, with restarts.                      *)
NextRecover ==
    \/ \E w \in Workers, f \in InFrames \cup CrFrames : Recv(w, f)
    \/ \E w \in Workers : Disconnect(w)
    \/ \E w \in Workers : ApplyUnknown(w)
    \/ \E w \in Workers : LogGetStep(w)
    \/ \E w \in Workers : LogSetAppend(w)
    \/ \E w \in Workers, n \in 0..MaxRecordLen : LogSetFail(w, n)
    \/ \E w \in Workers : LogSetIndex(w)
    \/ \E w \in Workers : Reply(w)
    \/ Restart

SpecRecover == InitLog /\ [][NextRecover]_vars

----------------------------------------------------------------------------
(* The listener and the shutdown of start_server (server/mod.rs), with     *)
(* the connection workers counted by what they are doing.  lpc is where    *)
(* start_server is: "accept" and "acquire" inside Listener::run (waiting   *)
(* for a socket, waiting for a permit for the socket it accepted),         *)
(* "stopped" after the select!, "notified" after drop(notify_shutdown),    *)
(* "await" after drop(shutdown_complete_tx), "drained" after               *)
(* shutdown_complete_rx.recv() returned, "returned" at the end.            *)

nonLsnVars == <<backend, now, entries, expirations, next_id, ppc, pwhen, file, index,
                wpc, wcmd, wtmp, replies, hist, codecVars, auxVars>>

InitServer ==
    /\ LsnInit
    /\ AuxInit
    /\ backend = MiniRedis
    /\ now = 0
    /\ entries = [k \in Keys |-> None]
    /\ expirations = {}
    /\ next_id = 0
    /\ shutdown = FALSE
    /\ permit = FALSE
    /\ ppc = "loop"
    /\ pwhen = 0
    /\ file = <<>>
    /\ index = [k \in Keys |-> None]
    /\ wpc = [w \in Workers |-> "closed"]
    /\ wcmd = [w \in Workers |-> NoCmd]
    /\ wtmp = [w \in Workers |-> NoTmp]
    /\ replies = [w \in Workers |-> <<>>]
    /\ hist = HistInit
    /\ CodecIdle

(* Senders of shutdown_complete that only the listener keeps count of.     *)
SendersLeftListenerOnly(lp, nr, nb) ==
    IF lp \in {"accept", "acquire", "stopped", "notified"} THEN 1 ELSE 0

(* The Senders of shutdown_complete alive: the listener's own until        *)
(* drop(shutdown_complete_tx), and the clone of every worker.              *)
SendersLeft(lp, nr, nb) ==
    (IF lp \in {"accept", "acquire", "stopped", "notified"} THEN 1 ELSE 0) + nr + nb

(* A start_server that drops notify_shutdown only after the await.         *)
NotifyDroppedAfterAwait(lp) == lp \in {"drained", "returned"}

(* notify_shutdown was dropped: every subscription reads Closed.           *)
NotifyDropped(lp) == lp \in {"notified", "await", "drained", "returned"}

(* A start_server whose destructuring let drops the rest of the Listener.  *)
DropGuardDroppedAtLet == "stopped"

(* Where db_holder is dropped: it stays in the partially moved `server`    *)
(* until the end of start_server, after the await on the receiver.         *)
DropGuardDroppedAt == "drained"

(* Listener::run: a socket was accepted.                                   *)
Accept ==
    /\ lpc = "accept"
    /\ lpc' = "acquire"
    /\ UNCHANGED <<nonLsnVars, shutdown, permit, permits, nread, nbusy>>

(* Listener::run: one permit acquired, the worker spawned with it.         *)
AcquireSpawn ==
    /\ lpc = "acquire"
    /\ permits > 0
    /\ permits' = permits - 1
    /\ nread' = nread + 1
    /\ lpc' = "accept"
    /\ UNCHANGED <<nonLsnVars, shutdown, permit, nbusy>>

(* start_server: the select! ends because accept failed (run returned      *)
(* Err).                                                                   *)
AcceptError ==
    /\ lpc = "accept"
    /\ lpc' = "stopped"
    /\ UNCHANGED <<nonLsnVars, shutdown, permit, permits, nread, nbusy>>

(* start_server: the select! ends because the shutdown future completed;   *)
(* the run future is dropped wherever it waits.                            *)
ShutdownSignal ==
    /\ lpc \in {"accept", "acquire"}
    /\ lpc' = "stopped"
    /\ UNCHANGED <<nonLsnVars, shutdown, permit, permits, nread, nbusy>>

(* start_server: drop(notify_shutdown).                                    *)
DropNotify ==
    /\ lpc = "stopped"
    /\ lpc' = "notified"
    /\ UNCHANGED <<nonLsnVars, shutdown, permit, permits, nread, nbusy>>

(* start_server: drop(shutdown_complete_tx).                               *)
DropTx ==
    /\ lpc = "notified"
    /\ lpc' = "await"
    /\ UNCHANGED <<nonLsnVars, shutdown, permit, permits, nread, nbusy>>

(* start_server: shutdown_complete_rx.recv() returns None, no Sender left. *)
Drained ==
    /\ lpc = "await"
    /\ SendersLeft(lpc, nread, nbusy) = 0
    /\ lpc' = "drained"
    /\ UNCHANGED <<nonLsnVars, shutdown, permit, permits, nread, nbusy>>

(* DropGuard::drop -> shutdown_purge_task, when db_holder is dropped.      *)
DropGuardDrop ==
    /\ lpc = DropGuardDroppedAt
    /\ ~shutdown
    /\ shutdown' = TRUE
    /\ permit' = TRUE
    /\ lpc' = IF lpc = "drained" THEN "returned" ELSE lpc
    /\ UNCHANGED <<nonLsnVars, permits, nread, nbusy>>

(* A worker read a frame: a command is in flight.                          *)
WorkerRecv ==
    /\ nread > 0
    /\ nread' = nread - 1
    /\ nbusy' = nbusy + 1
    /\ UNCHANGED <<nonLsnVars, shutdown, permit, lpc, permits>>

(* The command returned Ok: the worker reads again.                        *)
WorkerDone ==
    /\ nbusy > 0
    /\ nbusy' = nbusy - 1
    /\ nread' = nread + 1
    /\ UNCHANGED <<nonLsnVars, shutdown, permit, lpc, permits>>

(* The command returned an error: the worker ends; its permit goes back    *)
(* and its Sender is dropped.                                              *)
WorkerFail ==
    /\ nbusy > 0
    /\ nbusy' = nbusy - 1
    /\ permits' = permits + 1
    /\ UNCHANGED <<nonLsnVars, shutdown, permit, lpc, nread>>

(* The peer closed the connection or the read failed: the worker ends.     *)
WorkerEof ==
    /\ nread > 0
    /\ nread' = nread - 1
    /\ permits' = permits + 1
    /\ UNCHANGED <<nonLsnVars, shutdown, permit, lpc, nbusy>>

(* Shutdown::recv returned in the worker's select!: the worker ends.       *)
WorkerShutdown ==
    /\ nread > 0
    /\ NotifyDropped(lpc)
    /\ nread' = nread - 1
    /\ permits' = permits + 1
    /\ UNCHANGED <<nonLsnVars, shutdown, permit, lpc, nbusy>>

NextServer ==
    \/ Accept
    \/ AcquireSpawn
    \/ AcceptError
    \/ ShutdownSignal
    \/ DropNotify
    \/ DropTx
    \/ Drained
    \/ DropGuardDrop
    \/ WorkerRecv
    \/ WorkerDone
    \/ WorkerFail
    \/ WorkerEof
    \/ WorkerShutdown

SpecServer == InitServer /\ [][NextServer]_vars

(* The same under fair scheduling: start_server takes its next step, a     *)
(* command in flight returns, and a worker whose read races a closed       *)
(* shutdown subscription does not pick the read for ever.                  *)
SpecServerFair ==
    /\ InitServer
    /\ [][NextServer]_vars
    /\ WF_vars(DropNotify)
    /\ WF_vars(DropTx)
    /\ WF_vars(Drained)
    /\ WF_vars(DropGuardDrop)
    /\ WF_vars(WorkerDone \/ WorkerFail)
    /\ SF_vars(WorkerShutdown)

----------------------------------------------------------------------------
(* The shutdown signal (server/shutdown.rs): a broadcast channel, and for   *)
(* each subscriber w a Shutdown.  sig.sent counts the values sent, sig.open *)
(* is whether the Sender is alive; sub[w].from is sig.sent when w           *)
(* subscribed, pc is "none" before Shutdown::new, "idle" outside recv and   *)
(* "wait" inside notify.recv().await; recvs counts the recv calls that      *)
(* returned and waited is whether the latest recv call awaited the channel. *)

nonSigVars == <<backend, now, entries, expirations, next_id, shutdown, permit, ppc, pwhen,
                file, index, wpc, wcmd, wtmp, replies, hist, codecVars, lsnVars, spc, psr>>

(* broadcast::channel(1).                                                  *)
BroadcastChannel ==
    /\ ~sig.made
    /\ sig' = [sig EXCEPT !.made = TRUE, !.open = TRUE]
    /\ UNCHANGED nonSigVars

(* Shutdown::new(notify_shutdown.subscribe()).                             *)
ShutdownNew(w) ==
    /\ sig.open
    /\ sig.sub[w].pc = "none"
    /\ sig' = [sig EXCEPT !.sub[w] = [pc |-> "idle", shutdown |-> FALSE, from |-> sig.sent,
                                      recvs |-> 0, waited |-> FALSE]]
    /\ UNCHANGED nonSigVars

(* notify_shutdown.send(()).                                               *)
BroadcastSend ==
    /\ sig.open
    /\ sig.sent < MaxSends
    /\ sig' = [sig EXCEPT !.sent = @ + 1]
    /\ UNCHANGED nonSigVars

(* drop(notify_shutdown).                                                  *)
BroadcastDrop ==
    /\ sig.open
    /\ sig' = [sig EXCEPT !.open = FALSE]
    /\ UNCHANGED nonSigVars

(* The receiver of w has something to return: a value sent since it        *)
(* subscribed (Ok, or Lagged when it missed one), or Closed.               *)
RecvReady(w) == sig.sent > sig.sub[w].from \/ ~sig.open

(* Shutdown::recv is called: it returns at once when self.shutdown is set  *)
(* and awaits notify.recv() otherwise.                                     *)
ShutdownRecvCall(w) ==
    /\ sig.sub[w].pc = "idle"
    /\ sig.sub[w].recvs < MaxRecvCalls
    /\ sig' = IF sig.sub[w].shutdown
              THEN [sig EXCEPT !.sub[w].recvs = @ + 1, !.sub[w].waited = FALSE]
              ELSE [sig EXCEPT !.sub[w].pc = "wait", !.sub[w].waited = TRUE]
    /\ UNCHANGED nonSigVars

(* A recv that returns from the channel and leaves self.shutdown as it is. *)
ShutdownRecvWakeNoFlag(w) ==
    /\ sig.sub[w].pc = "wait"
    /\ RecvReady(w)
    /\ sig' = [sig EXCEPT !.sub[w].pc = "idle", !.sub[w].recvs = @ + 1]
    /\ UNCHANGED nonSigVars

(* Shutdown::recv: notify.recv().await returned, self.shutdown = true.     *)
ShutdownRecvWake(w) ==
    /\ sig.sub[w].pc = "wait"
    /\ RecvReady(w)
    /\ sig' = [sig EXCEPT !.sub[w].pc = "idle", !.sub[w].shutdown = TRUE,
                          !.sub[w].recvs = @ + 1]
    /\ UNCHANGED nonSigVars

(* The caller drops the recv future while it waits (the other branch of    *)
(* its select! completed).                                                 *)
ShutdownRecvDropped(w) ==
    /\ sig.sub[w].pc = "wait"
    /\ sig' = [sig EXCEPT !.sub[w].pc = "idle"]
    /\ UNCHANGED nonSigVars

NextSignal ==
    \/ BroadcastChannel
    \/ BroadcastSend
    \/ BroadcastDrop
    \/ \E w \in Workers : ShutdownNew(w)
    \/ \E w \in Workers : ShutdownRecvCall(w)
    \/ \E w \in Workers : ShutdownRecvWake(w)
    \/ \E w \in Workers : ShutdownRecvDropped(w)

(* A recv whose channel has something to return is polled again.           *)
SpecSignal ==
    /\ InitServer
    /\ [][NextSignal]_vars
    /\ \A w \in Workers : WF_vars(ShutdownRecvWake(w))

----------------------------------------------------------------------------
(* The dispatcher on one frame: every connection sends the same frame,     *)
(* which is an array of a verb and up to MaxArgs further elements, an      *)
(* empty array or a frame that is no array.                                *)

VerbElems ==
    {Bulk(GetName), Simple(<<"G", "E", "T">>), Bulk(<<"S", "e", "t">>),
     Bulk(<<"P", "I", "N", "G">>), Simple(<<"g", "e", "t", "s">>), Bulk(<<>>),
     Bulk(<<BAD>>), Integer(1), Null}

ArgElems == {Bulk(KeyA), Integer(1)}

CmdFrames ==
    {Array(<<v>> \o a) : v \in VerbElems, a \in SeqsUpTo(ArgElems, MaxArgs)}
        \cup {Array(<<>>), Simple(GetName), Bulk(SetName), Integer(1), Null}

InitCmd ==
    /\ SrvInit
    /\ frm \in CmdFrames
    /\ buf = <<>>
    /\ build = [overflow_checks |-> FALSE, atoi_signed |-> FALSE]
    /\ fphase = "frame"
    /\ fres = NoResult

NextCmd ==
    \/ Tick
    \/ \E w \in Workers : Recv(w, frm)
    \/ \E w \in Workers : Disconnect(w)
    \/ \E w \in Workers : ApplyUnknown(w)
    \/ \E w \in Workers : MemGetStep(w)
    \/ \E w \in Workers : MemSetLocked(w)
    \/ \E w \in Workers : MemSetNotify(w)
    \/ \E w \in Workers : LogGetStep(w)
    \/ \E w \in Workers : LogSetAppend(w)
    \/ \E w \in Workers, n \in 0..MaxRecordLen : LogSetFail(w, n)
    \/ \E w \in Workers : LogSetIndex(w)
    \/ \E w \in Workers : Reply(w)
    \/ PurgeLoop
    \/ PurgeRun
    \/ PurgeTimer
    \/ PurgeNotified
    \/ ShutdownPurgeTask

SpecCmd == InitCmd /\ [][NextCmd]_vars

----------------------------------------------------------------------------
(* A Parser used call by call (connection/parser.rs): psr.parts and psr.i  *)
(* are the array and the number of elements consumed, psr.out the frames   *)
(* that next returned, psr.last the latest call, its result and the        *)
(* number of elements consumed before it.                                  *)

nonPsrVars == <<backend, now, entries, expirations, next_id, shutdown, permit, ppc, pwhen,
                file, index, wpc, wcmd, wtmp, replies, hist, codecVars, lsnVars, spc, sig>>

(* Parser::new(frame).                                                     *)
ParserNewStep(f) ==
    /\ ~psr.made
    /\ psr.last = NoCall
    /\ LET r == ParserNew(f)
       IN psr' = IF r.ok
                 THEN [made |-> TRUE, parts |-> r.v.parts, i |-> r.v.i, out |-> <<>>,
                       last |-> [op |-> "new", res |-> "Ok", before |-> 0]]
                 ELSE [psr EXCEPT !.last = [op |-> "new", res |-> "Other", before |-> 0]]
    /\ UNCHANGED nonPsrVars

(* parser.next().                                                          *)
ParserNextStep ==
    /\ psr.made
    /\ LET r == ParserNext([parts |-> psr.parts, i |-> psr.i])
       IN psr' = [psr EXCEPT !.i = r.p.i,
                             !.out = IF r.ok THEN Append(@, r.v) ELSE @,
                             !.last = [op |-> "next", res |-> CallResult(r), before |-> psr.i]]
    /\ UNCHANGED nonPsrVars

(* parser.next_string().                                                   *)
ParserNextStringStep ==
    /\ psr.made
    /\ LET r == ParserNextString([parts |-> psr.parts, i |-> psr.i])
       IN psr' = [psr EXCEPT !.i = r.p.i,
                             !.last = [op |-> "next_string", res |-> CallResult(r),
                                       before |-> psr.i]]
    /\ UNCHANGED nonPsrVars

(* parser.finish(): self.parts.next() takes an element when one is left.   *)
ParserFinishStep ==
    /\ psr.made
    /\ LET r == ParserFinish([parts |-> psr.parts, i |-> psr.i])
       IN psr' = [psr EXCEPT !.i = IF psr.i < Len(psr.parts) THEN psr.i + 1 ELSE psr.i,
                             !.last = [op |-> "finish", res |-> CallResult(r),
                                       before |-> psr.i]]
    /\ UNCHANGED nonPsrVars

NextParser ==
    \/ \E f \in CmdFrames : ParserNewStep(f)
    \/ ParserNextStep
    \/ ParserNextStringStep
    \/ ParserFinishStep

SpecParser == InitServer /\ [][NextParser]_vars

----------------------------------------------------------------------------
(* The codec on its own: a frame is encoded and the bytes, a proper prefix *)
(* of them, the bytes with more bytes behind them or the bytes with one    *)
(* byte replaced are checked from position 0 and, when check accepts them, *)
(* parsed from position 0; so are short arbitrary buffers.                 *)

RangeOf(q) == {q[i] : i \in 1..Len(q)}

TextBytes == {"a", CR, LF}
BulkBytes == TextBytes \cup {BAD}
ExtraBytes == {"a", "+", CR, LF}
RawBytes ==
    {"+", "-", ":", "$", "*", "a", CR, LF}
        \cup RangeOf(ToDecimal(U64_MAX)) \cup RangeOf(ToDecimal(U64_MAX - 1))

ElemFrames == {Simple(<<"a">>), Integer(1), Null, Bulk(<<CR, LF>>)}

FrameSet ==
    {Simple(t) : t \in SeqsUpTo(TextBytes, MaxText)}
        \cup {Error(t) : t \in SeqsUpTo(TextBytes, MaxText)}
        \cup {Bulk(t) : t \in SeqsUpTo(BulkBytes, MaxText)}
        \cup {Integer(n) : n \in 0..U64_MAX}
        \cup {Null}
        \cup {Array(a) : a \in SeqsUpTo(ElemFrames, MaxElems)}

(* The bytes that arrive behind a frame, and the short buffers.            *)
Extras == SeqsUpTo(ExtraBytes, MaxExtra) \ {<<>>}
RawBufs == SeqsUpTo(RawBytes, MaxBuf)

Builds == [overflow_checks : BOOLEAN, atoi_signed : BOOLEAN]

InitFrame ==
    /\ SrvInit
    /\ backend = MiniRedis
    /\ build \in Builds
    /\ fres = NoResult
    /\ \/ frm \in FrameSet /\ buf = <<>> /\ fphase = "frame"
       \/ frm = Null /\ buf \in RawBufs /\ fphase = "bytes"

(* frame.create_bytes(): unreachable!() on an Array.                       *)
CreateBytesStep ==
    /\ fphase = "frame"
    /\ IF frm.t = "Array"
       THEN /\ fphase' = "panicked"
            /\ fres' = [NoResult EXCEPT !.op = "create_bytes", !.res = "Panic"]
            /\ buf' = buf
       ELSE /\ fphase' = "encoded"
            /\ buf' = CreateBytes(frm)
            /\ fres' = fres
    /\ UNCHANGED <<srvVars, frm, build>>

(* An Array written as its header and the create_bytes of each element.    *)
WriteArray ==
    /\ fphase = "frame"
    /\ frm.t = "Array"
    /\ fphase' = "encoded"
    /\ buf' = ArrayBytes(frm)
    /\ UNCHANGED <<srvVars, frm, build, fres>>

(* Only the first n bytes of the encoding have arrived.                    *)
TakePrefix(n) ==
    /\ fphase = "encoded"
    /\ fres.op = "none"
    /\ n < Len(buf)
    /\ fphase' = "prefix"
    /\ buf' = SubSeq(buf, 1, n)
    /\ UNCHANGED <<srvVars, frm, build, fres>>

(* More bytes x have arrived behind the encoding.                          *)
AppendBytes(x) ==
    /\ fphase = "encoded"
    /\ fres.op = "none"
    /\ fphase' = "extended"
    /\ buf' = buf \o x
    /\ UNCHANGED <<srvVars, frm, build, fres>>

(* The peer sent byte c in place of byte i of the encoding.                *)
ReplaceByte(i, c) ==
    /\ fphase = "encoded"
    /\ fres.op = "none"
    /\ i \in 1..Len(buf)
    /\ c # buf[i]
    /\ fphase' = "corrupt"
    /\ buf' = [buf EXCEPT ![i] = c]
    /\ UNCHANGED <<srvVars, frm, build, fres>>

Buffered == fphase \in {"bytes", "encoded", "prefix", "extended", "corrupt"}

(* Frame::check(&mut Cursor::new(&buf[..])).                               *)
CheckStep ==
    /\ Buffered
    /\ fres.op = "none"
    /\ LET c == Check(buf, 0, -1, build)
       IN fres' = [op |-> "check", res |-> c.res, pos |-> c.pos, rd |-> c.rd,
                   frame |-> Null]
    /\ UNCHANGED <<srvVars, frm, buf, build, fphase>>

(* Frame::parse(&mut Cursor::new(&buf[..])): "This method should be called *)
(* after Frame::check(src)", on a buffer check accepted.                   *)
ParseStep ==
    /\ Buffered
    /\ fres.op = "check"
    /\ fres.res = "Ok"
    /\ LET r == Parse(buf, 0, -1, build)
       IN fres' = [op |-> "parse", res |-> r.res, pos |-> r.pos, rd |-> r.rd,
                   frame |-> IF r.res = "Ok" THEN r.v ELSE Null]
    /\ UNCHANGED <<srvVars, frm, buf, build, fphase>>

NextFrame ==
    \/ CreateBytesStep
    \/ WriteArray
    \/ \E n \in 0..(Len(buf) - 1) : TakePrefix(n)
    \/ \E x \in Extras : AppendBytes(x)
    \/ \E i \in 1..Len(buf), c \in RawBytes : ReplaceByte(i, c)
    \/ CheckStep
    \/ ParseStep

SpecFrame == InitFrame /\ [][NextFrame]_vars

----------------------------------------------------------------------------
(* Claims about the stores and the dispatcher.                             *)

(* What the store holds for key k: the data of its entry (in-memory), the  *)
(* value of the set whose index insert came last (append-log).             *)
StoreHolds(k) ==
    IF backend = MiniRedis
    THEN (IF entries[k].some THEN Some(entries[k].v.data) ELSE None)
    ELSE hist.okSet[k]

(* C1: in-memory store: while less than TTL has passed since the latest    *)
(* set(k, v), get(k) returns Some(v), whatever sets on other keys and      *)
(* purge passes happened in between.                                       *)
C1_SetThenGetWithinTtl ==
    \A k \in Keys :
        (hist.memLast[k].some /\ now < hist.memLast[k].v.at + TTL)
            => MemGet(entries, k) = Ok(Some(hist.memLast[k].v.val))

(* C1 witness: k was set, time has passed, another key set before it was   *)
(* purged, and k is still served.                                          *)
C1_Witness ==
    \E k \in Keys, o \in Keys :
        /\ o # k
        /\ hist.memLast[k].some /\ hist.memLast[o].some
        /\ now > hist.memLast[k].v.at
        /\ now < hist.memLast[k].v.at + TTL
        /\ ~entries[o].some
        /\ MemGet(entries, k) = Ok(Some(hist.memLast[k].v.val))

(* C2 as claimed: append-log store: after the only set(k, v) on k returned *)
(* Ok, k and v without ',' and '\n', get(k) returns Some(v), exactly v.    *)
C2_LogSetThenGetExact ==
    \A k \in Keys :
        (/\ hist.nSets[k] = 1
         /\ hist.okSet[k].some
         /\ Plain(k)
         /\ Plain(hist.okSet[k].v))
            => LogGet(index, file, k) = Ok(Some(hist.okSet[k].v))

(* C3 as claimed: append-log store: once every set has returned, index[k]  *)
(* is the offset of the record appended last for k.                        *)
C3_IndexPointsAtLatest ==
    (\A w \in Workers : wpc[w] # "index")
        => \A k \in Keys : hist.lastAppend[k].some => index[k] = hist.lastAppend[k]

(* C4 as claimed: every apply call that returned wrote exactly one reply   *)
(* frame, also when the store returned an error.                           *)
C4_OneReplyPerApply ==
    \A w \in Workers : Len(replies[w]) = hist.done[w]

(* C5 as claimed: after a store error during apply the reply is an Error   *)
(* frame and the worker is still serving the connection.                   *)
C5_StoreErrorIsReplied ==
    \A w \in Workers :
        hist.failed[w] =>
            /\ wpc[w] # "closed"
            /\ replies[w] # <<>>
            /\ replies[w][Len(replies[w])].t = "Error"

(* C10 as claimed: the reply that apply writes after the store call        *)
(* returned is, for Get(key), Bulk(value) when the store held value for    *)
(* key at that call and Null when it held none, and for Set(key, value)    *)
(* it is Simple("OK").                                                     *)
C10_ApplyReplies ==
    [][\A w \in Workers :
          (wpc[w] = "reply" /\ wpc'[w] = "read") =>
              /\ wcmd[w].t = "Get" =>
                    replies'[w] = Append(replies[w],
                                         IF wtmp[w].held.some
                                         THEN Bulk(wtmp[w].held.v)
                                         ELSE Null)
              /\ wcmd[w].t = "Set" => replies'[w] = Append(replies[w], OkReply)]_vars

(* The entry of k is due: its expiration is not after now.                 *)
Due(k) == entries[k].some /\ ~(entries[k].v.expires_at.v > now)

(* C15: in-memory store, fair scheduling: an entry that is due while the   *)
(* store is not shut down is eventually gone from entries (purged, or      *)
(* replaced by a later set), unless the store is shut down first.          *)
C15_DueEntryIsPurged ==
    \A k \in Keys : (Due(k) /\ ~shutdown) ~> (~Due(k) \/ shutdown)

(* C15 witness: k was set, its TTL has passed, the purge task removed its  *)
(* entry and the store is not shut down.                                   *)
C15_Witness ==
    \E k \in Keys :
        /\ hist.memLast[k].some
        /\ ~(hist.memLast[k].v.at + TTL > now)
        /\ ~entries[k].some
        /\ ~shutdown

(* No key was set twice: every set call so far was on a key of its own.    *)
DistinctKeySets ==
    IF backend = MiniRedis
    THEN next_id = Cardinality({k \in Keys : hist.memLast[k].some})
    ELSE \A k \in Keys : hist.nSets[k] <= 1

(* The store holds for k what the set on k wrote and nothing of another    *)
(* key: in memory the entry with that value and the one expiration that    *)
(* carries the entry's id and k; in the log the index offset of the record *)
(* "k,v\n" that this set appended.                                         *)
OwnDataOf(k) ==
    IF backend = MiniRedis
    THEN /\ entries[k].some
         /\ entries[k].v.data = hist.memLast[k].v.val
         /\ {e \in expirations : e.key = k \/ e.id = entries[k].v.id}
               = {[when |-> hist.memLast[k].v.at + TTL, id |-> entries[k].v.id, key |-> k]}
    ELSE /\ index[k].some
         /\ index[k] = hist.lastAppend[k]
         /\ index[k].v + Len(hist.okSet[k].v) + Len(k) + 2 <= Len(file)
         /\ SubSeq(file, index[k].v + 1, index[k].v + Len(k) + Len(hist.okSet[k].v) + 2)
               = k \o <<",">> \o hist.okSet[k].v \o <<"\n">>

(* C16: on either store, while every set was on a key of its own and no    *)
(* file operation failed: every connection got Simple("OK") for each of    *)
(* its sets, and every key whose set has returned from the store holds the *)
(* data of its own set (in memory: until its TTL has passed).              *)
C16_DistinctKeySetsAllLand ==
    (DistinctKeySets /\ hist.faults = 0) =>
        /\ \A w \in Workers :
              /\ ~hist.failed[w]
              /\ replies[w] = [i \in 1..hist.done[w] |-> Simple(<<"O", "K">>)]
        /\ \A k \in Keys :
              /\ (backend = MiniRedis /\ hist.memLast[k].some
                    /\ now < hist.memLast[k].v.at + TTL) => OwnDataOf(k)
              /\ (backend = SimpleStore /\ hist.okSet[k].some) => OwnDataOf(k)

(* C16 witness: two connections are inside their sets at once, on         *)
(* different keys; both store calls have returned, no reply is out yet,    *)
(* and both keys hold their own data.                                      *)
C16_Witness ==
    /\ DistinctKeySets
    /\ hist.faults = 0
    /\ \E w1 \in Workers, w2 \in Workers :
          /\ wpc[w1] = "reply" /\ wpc[w2] = "reply"
          /\ wcmd[w1].t = "Set" /\ wcmd[w2].t = "Set"
          /\ wcmd[w1].key # wcmd[w2].key
          /\ OwnDataOf(wcmd[w1].key)
          /\ OwnDataOf(wcmd[w2].key)

----------------------------------------------------------------------------
(* Claims about the append-log store across a restart.                     *)

(* The store was built by recovery and no set on k was called since.       *)
RecoveredNoSetSince(k) ==
    /\ hist.snap.some
    /\ lpc # "panicked"
    /\ hist.nSets[k] = hist.snap.v.nSets[k]

(* C13 as claimed: the only set(k, v) on k returned Ok, k and v without    *)
(* ',' and '\n', then the process was restarted: get(k) on the recovered   *)
(* store returns Some(v).                                                  *)
C13_GetAfterRestart ==
    \A k \in Keys :
        (/\ RecoveredNoSetSince(k)
         /\ hist.snap.v.nSets[k] = 1
         /\ hist.snap.v.okSet[k].some
         /\ Plain(k)
         /\ Plain(hist.snap.v.okSet[k].v))
            => LogGet(index, file, k) = Ok(Some(hist.snap.v.okSet[k].v))

(* C14 as claimed: after two or more sets of k, none of which failed, and  *)
(* a restart, the recovered index maps k to the offset of the last record  *)
(* appended for k.                                                         *)
C14_RecoverMapsToLastRecord ==
    \A k \in Keys :
        (/\ RecoveredNoSetSince(k)
         /\ hist.faults = 0
         /\ hist.snap.v.nSets[k] >= 2
         /\ hist.snap.v.lastAppend[k].some)
            => index[k] = hist.snap.v.lastAppend[k]

----------------------------------------------------------------------------
(* Claims about the dispatcher on one frame.                               *)

(* Worker w read a frame in this step (and did not just see its peer       *)
(* close).                                                                 *)
ReadsFrame(w) ==
    /\ wpc[w] = "read"
    /\ wpc'[w] # "read"
    /\ hist'.ncmds = hist.ncmds + 1

(* The frame is an array whose first element is a string that, lowercased, *)
(* is neither "get" nor "set".                                             *)
UnknownVerb(f) ==
    /\ f.t = "Array"
    /\ Len(f.a) >= 1
    /\ f.a[1].t \in {"Simple", "Bulk"}
    /\ IsUtf8(f.a[1].s)
    /\ ToLowercase(f.a[1].s) \notin {<<"g", "e", "t">>, <<"s", "e", "t">>}

ErrUnknownCommand(name) ==
    Error(<<"E", "R", "R", " ", "u", "n", "k", "n", "o", "w", "n", " ",
            "c", "o", "m", "m", "a", "n", "d", " ", "'">> \o name \o <<"'">>)

(* C11: a frame with an unknown verb becomes Unknown(lowercased verb)      *)
(* whatever follows the verb; applying it appends the one frame            *)
(* Error("ERR unknown command '<verb>'") to the connection, changes        *)
(* nothing in the store and leaves the worker reading the connection.      *)
C11_UnknownVerbIsReplied ==
    [][UnknownVerb(frm) =>
          \A w \in Workers :
              /\ ReadsFrame(w) =>
                    /\ wpc'[w] = "apply"
                    /\ wcmd'[w] = [t |-> "Unknown", key |-> ToLowercase(frm.a[1].s),
                                   value |-> <<>>]
              /\ (wpc[w] = "apply" /\ wpc'[w] # "apply") =>
                    /\ replies'[w] =
                          Append(replies[w], ErrUnknownCommand(ToLowercase(frm.a[1].s)))
                    /\ wpc'[w] = "read"
                    /\ UNCHANGED <<entries, expirations, next_id, file, index>>]_vars

(* C11 witness: PING followed by two more elements was answered with the   *)
(* error frame and the worker reads on.                                    *)
C11_Witness ==
    /\ frm.t = "Array"
    /\ Len(frm.a) = 3
    /\ frm.a[1] = Bulk(<<"P", "I", "N", "G">>)
    /\ \E w \in Workers :
          /\ replies[w] = <<ErrUnknownCommand(<<"p", "i", "n", "g">>)>>
          /\ wpc[w] = "read"

(* The malformed command frames: no array, an empty array, a first element *)
(* that is no Simple or UTF-8 Bulk, SET without its value, GET or SET with *)
(* elements behind the last argument.                                      *)
Malformed(f) ==
    \/ f.t # "Array"
    \/ f.a = <<>>
    \/ f.a[1].t \notin {"Simple", "Bulk"}
    \/ f.a[1].t = "Bulk" /\ ~IsUtf8(f.a[1].s)
    \/ ToLowercase(f.a[1].s) = <<"s", "e", "t">> /\ Len(f.a) = 2
    \/ ToLowercase(f.a[1].s) = <<"s", "e", "t">> /\ Len(f.a) > 3
    \/ ToLowercase(f.a[1].s) = <<"g", "e", "t">> /\ Len(f.a) > 2

(* C12: when every frame sent is the same malformed frame, no worker ever  *)
(* holds a command, no reply is written and the store stays as built: each *)
(* read of the frame ended the worker before any store call.               *)
C12_MalformedFrameNoReply ==
    Malformed(frm) =>
        /\ \A w \in Workers :
              /\ wpc[w] \in {"read", "closed"}
              /\ wcmd[w] = NoCmd
              /\ replies[w] = <<>>
              /\ hist.done[w] = 0
        /\ \A k \in Keys : ~entries[k].some /\ ~index[k].some
        /\ expirations = {}
        /\ next_id = 0
        /\ file = <<>>

(* C12 witness: SET with a key and no value was read on every connection.  *)
C12_Witness ==
    /\ frm.t = "Array"
    /\ Len(frm.a) = 2
    /\ frm.a[1] = Bulk(<<"S", "e", "t">>)
    /\ frm.a[2] = Bulk(KeyA)
    /\ hist.ncmds = NWorkers
    /\ \A w \in Workers : wpc[w] = "closed" /\ replies[w] = <<>>

----------------------------------------------------------------------------
(* Claims about the frame codec.                                           *)

(* The bytes written for frame f are a valid frame encoding: parse reads   *)
(* all of them back as f.                                                  *)
ValidEncoding(f) ==
    LET e == EncodingOf(f)
        r == Parse(e, 0, -1, build)
    IN r.res = "Ok" /\ r.pos = Len(e) /\ FrameEq(r.v, f)

(* C6 as claimed: for every frame that is not an Array, whatever its text  *)
(* or bytes, parse of the bytes create_bytes produced gives a frame equal  *)
(* to it.                                                                  *)
C6_ParseOfCreateBytes ==
    (fphase = "encoded" /\ fres.op = "parse" /\ frm.t # "Array")
        => (fres.res = "Ok" /\ FrameEq(fres.frame, frm))

(* C7: check on a proper prefix (the empty one included) of a valid frame  *)
(* encoding returns Incomplete, never Ok and never a protocol error.       *)
C7_PrefixIsIncomplete ==
    (fphase = "prefix" /\ fres.op = "check" /\ ValidEncoding(frm))
        => fres.res = "Incomplete"

(* C7 witness: check returned Incomplete on a prefix of a valid array      *)
(* encoding that ends inside the body of its second element, a Bulk.       *)
C7_Witness ==
    /\ fphase = "prefix"
    /\ fres.op = "check"
    /\ fres.res = "Incomplete"
    /\ ValidEncoding(frm)
    /\ frm.t = "Array"
    /\ Len(frm.a) = 2
    /\ frm.a[2].t = "Bulk"
    /\ Len(buf) = Len(EncodingOf(frm)) - 2

(* C8: when check succeeds on the valid encoding of one frame followed by  *)
(* further bytes, the cursor is at the end of that encoding.               *)
C8_CheckStopsAtFrameEnd ==
    (fphase = "extended" /\ fres.op = "check" /\ fres.res = "Ok" /\ ValidEncoding(frm))
        => fres.pos = Len(EncodingOf(frm))

(* C8 witness: check succeeded on an array of two elements, one a Bulk,    *)
(* followed by bytes that start like another frame, and stopped at the     *)
(* end of the array.                                                       *)
C8_Witness ==
    /\ fphase = "extended"
    /\ fres.op = "check"
    /\ fres.res = "Ok"
    /\ ValidEncoding(frm)
    /\ frm.t = "Array"
    /\ Len(frm.a) = 2
    /\ \E i \in 1..2 : frm.a[i].t = "Bulk" /\ frm.a[i].s # <<>>
    /\ fres.pos = Len(EncodingOf(frm))
    /\ fres.pos < Len(buf)
    /\ buf[fres.pos + 1] = "+"

(* C9: check, on any buffer, reads no byte at an index at or past the      *)
(* length of the buffer.                                                   *)
C9_CheckReadsInsideBuffer ==
    fres.op = "check" => fres.rd < Len(buf)

(* C9 witness: get_line met '\r' in the second to last byte of the buffer  *)
(* and looked at the last byte, which is not '\n'.                         *)
C9_Witness ==
    /\ fres.op = "check"
    /\ fres.res = "Incomplete"
    /\ Len(buf) >= 3
    /\ buf[Len(buf) - 1] = CR
    /\ buf[Len(buf)] # LF
    /\ fres.rd = Len(buf) - 1

----------------------------------------------------------------------------
(* Claims about the listener and the shutdown of start_server.             *)

LiveWorkers == nread + nbusy

(* C17: start_server is past shutdown_complete_rx.recv().await only when   *)
(* no connection worker is running any more, and with it no Sender of      *)
(* shutdown_complete is left, the listener's own included.                 *)
C17_NoReturnWhileWorkersRun ==
    lpc \in {"drained", "returned"} =>
        /\ LiveWorkers = 0
        /\ SendersLeft(lpc, nread, nbusy) = 0

C17_Witness ==
    /\ lpc = "drained"
    /\ LiveWorkers = 0
    /\ permits = MAX_CONNECTIONS
    /\ ~shutdown

(* C18: once the select! of start_server has ended (the shutdown signal    *)
(* fired or the accept loop returned), start_server eventually returns,    *)
(* given that commands in flight return and that a worker racing its read  *)
(* against the closed subscription eventually takes the shutdown branch.   *)
C18_ShutdownEventuallyReturns == (lpc = "stopped") ~> (lpc = "returned")

C18_Witness ==
    /\ lpc = "await"
    /\ nread > 0
    /\ nbusy > 0

(* C19: at most MAX_CONNECTIONS workers are alive, and the permits the     *)
(* workers hold plus the permits available are always MAX_CONNECTIONS.     *)
C19_PermitsAreConserved ==
    /\ permits \in 0..MAX_CONNECTIONS
    /\ LiveWorkers <= MAX_CONNECTIONS
    /\ permits + LiveWorkers = MAX_CONNECTIONS

C19_Witness ==
    /\ lpc = "acquire"
    /\ permits = 0
    /\ LiveWorkers = MAX_CONNECTIONS

(* C20: the store's shutdown hook has run only when the drain is complete: *)
(* start_server is at its end and no worker is left to call get or set.    *)
C20_HookOnlyAfterDrain ==
    shutdown =>
        /\ lpc = "returned"
        /\ LiveWorkers = 0

C20_Witness ==
    /\ shutdown
    /\ permit
    /\ lpc = "returned"

----------------------------------------------------------------------------
(* Claims about the in-memory store's purge task and its bookkeeping.      *)

(* C21: once shutdown_purge_task has set the flag, the purge task          *)
(* eventually leaves its loop, wherever it was; and a call made when the   *)
(* flag is already set changes nothing of entries, expirations, next_id    *)
(* and shutdown.                                                           *)
C21_PurgeTaskExits ==
    /\ shutdown ~> (ppc = "done")
    /\ [][(shutdown /\ spc' # spc) =>
              UNCHANGED <<entries, expirations, next_id, shutdown>>]_vars

C21_Witness ==
    /\ hist.calls = MaxShutdownCalls
    /\ spc = "idle"
    /\ ppc = "done"
    /\ shutdown
    /\ entries[KeyA].some

(* The tuples of expirations that name key k.                              *)
ExpirationsOf(k) == {e \in expirations : e.key = k}

(* C22: every key in entries has exactly one tuple in expirations, the one *)
(* with the entry's own expires_at and id.                                 *)
C22_OneExpirationPerEntry ==
    \A k \in Keys :
        entries[k].some =>
            /\ entries[k].v.expires_at.some
            /\ ExpirationsOf(k) =
                   {Expiration(entries[k].v.expires_at.v, entries[k].v.id, k)}

(* KeyA was set twice before anything could expire, at different times.    *)
C22_Witness ==
    /\ backend = MiniRedis
    /\ next_id = 2
    /\ entries[KeyA].some
    /\ entries[KeyA].v.id = 1
    /\ ~entries[KeyAB].some
    /\ now = TickMs
    /\ entries[KeyA].v.expires_at = Some(TickMs + TTL)
    /\ Cardinality(expirations) = 1

(* C23: next_id never decreases and changes only in a set, by one, the set *)
(* taking the old value as the id of its entry; so the ids in entries are  *)
(* below next_id and differ from key to key.  get and purge leave it.      *)
C23_NextIdStrictlyIncreasing ==
    /\ [](\A k \in Keys : entries[k].some =>
             /\ entries[k].v.id < next_id
             /\ \A k2 \in Keys \ {k} :
                    entries[k2].some => entries[k2].v.id # entries[k].v.id)
    /\ [][/\ next_id' >= next_id
          /\ next_id' # next_id =>
                /\ next_id' = next_id + 1
                /\ \E w \in Workers :
                      /\ wpc[w] = "apply" /\ wcmd[w].t = "Set"
                      /\ wpc'[w] \in {"notify", "reply"}
                      /\ entries'[wcmd[w].key] # entries[wcmd[w].key]
                      /\ entries'[wcmd[w].key].v.id = next_id
          /\ (\E w \in Workers :
                 /\ wpc[w] = "apply" /\ wcmd[w].t = "Set" /\ wpc'[w] \in {"notify", "reply"})
                => next_id' = next_id + 1]_vars

(* Two sets on different keys whose store calls overlap got ids 0 and 1.   *)
C23_Witness ==
    /\ backend = MiniRedis
    /\ next_id = 2
    /\ entries[KeyA].some /\ entries[KeyAB].some
    /\ \A w \in Workers : wpc[w] \in {"notify", "reply"} /\ wcmd[w].t = "Set"

(* Every set so far was on key k, and there were at least two.             *)
SetTwice(k) ==
    /\ backend = MiniRedis
    /\ next_id >= 2
    /\ hist.memLast[k].some
    /\ \A o \in Keys \ {k} : ~hist.memLast[o].some

(* C24: in-memory store, after set(k, v1) and then set(k, v2): while less  *)
(* than TTL has passed since the second set, get(k) returns Some(v2), the  *)
(* entry expires TTL after the second set, and no purge pass in that time, *)
(* the one at the first set's expiry included, changes the entry.          *)
C24_SecondSetSurvivesFirstExpiry ==
    /\ [](\A k \in Keys :
            (SetTwice(k) /\ now < hist.memLast[k].v.at + TTL) =>
                /\ MemGet(entries, k) = Ok(Some(hist.memLast[k].v.val))
                /\ entries[k].v.expires_at = Some(hist.memLast[k].v.at + TTL))
    /\ [][\A k \in Keys :
            (/\ SetTwice(k)
             /\ now < hist.memLast[k].v.at + TTL
             /\ ppc = "purge" /\ ppc' # "purge") => entries'[k] = entries[k]]_vars

(* The purge task woke at the deadline it took from the first set, made at *)
(* time 0; the second set was made one tick later and its entry is there.  *)
C24_Witness ==
    /\ SetTwice(KeyA)
    /\ hist.memLast[KeyA].v.at = TickMs
    /\ now = TTL
    /\ ppc = "purge"
    /\ pwhen = TTL
    /\ ~shutdown
    /\ \A w \in Workers : wpc[w] \in {"read", "closed"}
    /\ MemGet(entries, KeyA) = Ok(Some(hist.memLast[KeyA].v.val))

----------------------------------------------------------------------------
(* Claims about what one connection sees of another and of itself.         *)

(* Connection b has got Some(v) for key k from the store and not replied.  *)
GotValue(b, k, v) ==
    /\ wpc[b] = "reply"
    /\ wcmd[b] = CmdGet(k)
    /\ wtmp[b].resp = Bulk(v)

(* The set(k, v) of connection a has not returned yet.                     *)
SetNotReturned(a, k, v) ==
    /\ wpc[a] \in {"apply", "notify"}
    /\ wcmd[a] = CmdSet(k, v)

Answers(cmd, f) ==
    CASE cmd.t = "Get" -> f.t \in {"Bulk", "Null"}
      [] cmd.t = "Set" -> f = OkReply
      [] cmd.t = "Unknown" -> f = UnknownReply(cmd.key)
      [] OTHER -> FALSE

(* C26: on each connection a frame is read only when every command         *)
(* accepted before has been applied and answered, and each reply is        *)
(* appended while its command is the one in flight and answers it: the     *)
(* i-th reply answers the i-th accepted command.  Only the last command,   *)
(* if its store call failed, has no reply.                                 *)
C26_RepliesInRequestOrder ==
    /\ [](\A w \in Workers :
            Len(replies[w]) = hist.done[w] - (IF hist.failed[w] THEN 1 ELSE 0))
    /\ [][\A w \in Workers :
            /\ ReadsFrame(w) =>
                  /\ wcmd[w] = NoCmd
                  /\ ~hist.failed[w]
                  /\ Len(replies[w]) = hist.done[w]
            /\ replies'[w] # replies[w] =>
                  /\ wcmd[w] # NoCmd
                  /\ Len(replies[w]) = hist.done[w]
                  /\ hist'.done[w] = hist.done[w] + 1
                  /\ Len(replies'[w]) = Len(replies[w]) + 1
                  /\ SubSeq(replies'[w], 1, Len(replies[w])) = replies[w]
                  /\ Answers(wcmd[w], replies'[w][Len(replies'[w])])
                  /\ wpc'[w] = "read"]_vars

(* One connection sent SET then GET and has both replies, in that order.   *)
C26_Witness ==
    \E w \in Workers :
        /\ Len(replies[w]) = 2
        /\ replies[w][1] = OkReply
        /\ replies[w][2].t = "Bulk"
        /\ hist.done[w] = 2
        /\ wpc[w] = "read"

----------------------------------------------------------------------------
(* Claims about the shutdown signal and the argument parser.               *)

(* C27: is_shutdown() is false until a recv() has returned from the        *)
(* channel, which it does only when a value was sent since the             *)
(* subscription or the Sender was dropped, and then it does return unless  *)
(* its caller drops it; from then on is_shutdown() stays true and recv()   *)
(* returns without awaiting the channel.                                   *)
C27_ShutdownLatches ==
    /\ [](\A w \in Workers :
            /\ sig.sub[w].shutdown <=> sig.sub[w].recvs >= 1
            /\ sig.sub[w].shutdown => RecvReady(w) /\ sig.sub[w].pc = "idle")
    /\ [][\A w \in Workers :
            /\ sig.sub[w].shutdown => sig'.sub[w].shutdown
            /\ (sig.sub[w].shutdown /\ sig'.sub[w].recvs # sig.sub[w].recvs)
                  => ~sig'.sub[w].waited /\ sig'.sub[w].pc = "idle"]_vars
    /\ \A w \in Workers :
          (sig.sub[w].pc = "wait" /\ RecvReady(w))
              ~> (sig.sub[w].shutdown \/ sig.sub[w].pc = "idle")

(* The test of shutdown.rs and one more call: the Sender was dropped with  *)
(* nothing sent, the first recv awaited the channel and returned, the      *)
(* second returned at once.                                                *)
C27_Witness ==
    \E w \in Workers :
        /\ ~sig.open
        /\ sig.sent = 0
        /\ sig.sub[w].shutdown
        /\ sig.sub[w].recvs = 2
        /\ ~sig.sub[w].waited

(* C28: a Parser made from an Array: while every element consumed so far   *)
(* was taken by next, the frames next returned are the array's elements in *)
(* their order; next returns the element after those consumed, and         *)
(* EndOfStream exactly when none is left, which no other failure returns;  *)
(* finish returns Ok exactly when none is left.                            *)
C28_ParserYieldsInOrder ==
    psr.made =>
        /\ psr.i \in 0..Len(psr.parts)
        /\ Len(psr.out) = psr.i => psr.out = SubSeq(psr.parts, 1, psr.i)
        /\ psr.last.op = "next" =>
              /\ psr.last.res \in {"Ok", "EndOfStream"}
              /\ psr.last.res = "EndOfStream" <=> psr.last.before = Len(psr.parts)
              /\ psr.last.res = "Ok" =>
                    /\ psr.i = psr.last.before + 1
                    /\ psr.out # <<>>
                    /\ psr.out[Len(psr.out)] = psr.parts[psr.i]
        /\ psr.last.op = "next_string" =>
              (psr.last.res = "EndOfStream" <=> psr.last.before = Len(psr.parts))
        /\ psr.last.op = "finish" =>
              (psr.last.res = "Ok" <=> psr.last.before = Len(psr.parts))

(* test_next with three elements: all of them taken by next, finish was    *)
(* Ok, and the next after it returned EndOfStream.                         *)
C28_Witness ==
    /\ psr.made
    /\ Len(psr.parts) = 3
    /\ psr.parts[1] # psr.parts[2]
    /\ psr.out = psr.parts
    /\ psr.last = [op |-> "next", res |-> "EndOfStream", before |-> 3]

----------------------------------------------------------------------------
(* Claims about the log file and the index of the append-log store.        *)

IsPrefixOf(a, b) == Len(a) <= Len(b) /\ SubSeq(b, 1, Len(a)) = a

(* C29: every step leaves the file a prefix of what it becomes; a set that *)
(* returns Ok has added exactly key ',' value '\n' at the end, in one step *)
(* under write_mutex; get and the index insert leave the file as it is.    *)
C29_FileIsAppendOnly ==
    [][/\ IsPrefixOf(file, file')
       /\ \A w \in Workers :
             /\ (wpc[w] = "apply" /\ wcmd[w].t = "Set" /\ wpc'[w] = "index") =>
                   file' = file \o wcmd[w].key \o <<COMMA>> \o wcmd[w].value \o <<LF>>
             /\ (wpc[w] = "apply" /\ wcmd[w].t = "Get" /\ wpc'[w] # "apply") =>
                   file' = file
             /\ (wpc[w] = "index" /\ wpc'[w] # "index") => file' = file
       /\ file' # file =>
             \E w \in Workers :
                 /\ wpc[w] = "apply" /\ wcmd[w].t = "Set" /\ wpc'[w] # "apply"
                 /\ \A o \in Workers \ {w} : wpc'[o] = wpc[o]]_vars

(* Two sets and their records, one after the other, the second written     *)
(* while the first set had not returned.                                   *)
C29_Witness ==
    \E a, b \in Workers :
        /\ a # b
        /\ backend = SimpleStore
        /\ wpc[a] = "index" /\ wpc[b] = "index"
        /\ wtmp[a].off = 0
        /\ hist.faults = 0
        /\ file = Record(wcmd[a].key, wcmd[a].value) \o Record(wcmd[b].key, wcmd[b].value)

(* get: key_value[0], the first field of the line read at the offset.      *)
FirstFieldAt(f, offset) == SplitOn(ReadLine(f, offset), COMMA)[1]

HasComma(key) == \E i \in 1..Len(key) : key[i] = COMMA

(* C30: the record at the offset the index holds for a key without ','     *)
(* starts with that key and a ','; a get that finds another first field at *)
(* the offset returns an error and no value.                               *)
C30_IndexPointsAtOwnRecord ==
    /\ [](\A k \in Keys :
             index[k].some =>
                 /\ ~HasComma(k) =>
                       /\ Len(SplitOn(ReadLine(file, index[k].v), COMMA)) >= 2
                       /\ FirstFieldAt(file, index[k].v) = k
                 /\ FirstFieldAt(file, index[k].v) # k =>
                       ~LogGet(index, file, k).ok)
    /\ [][\A w \in Workers :
             (/\ wpc[w] = "apply" /\ wcmd[w].t = "Get" /\ wpc'[w] # "apply"
              /\ index[wcmd[w].key].some
              /\ FirstFieldAt(file, index[wcmd[w].key].v) # wcmd[w].key)
             => (wpc'[w] = "closed" /\ replies' = replies)]_vars

(* The record of "a" is indexed and lies right behind a torn record, one   *)
(* that has no '\n' at its end.                                            *)
C30_Witness ==
    /\ backend = SimpleStore
    /\ hist.faults > 0
    /\ index[KeyA].some /\ index[KeyA].v > 0
    /\ file[index[KeyA].v] # LF
    /\ \E w \in Workers : wpc[w] = "reply" /\ wcmd[w].t = "Set" /\ wcmd[w].key = KeyA

----------------------------------------------------------------------------
(* Claims about the wire encodings.                                        *)

(* The number a string of decimal digits stands for.                       *)
RECURSIVE DecimalValue(_)
DecimalValue(d) ==
    IF d = <<>> THEN 0
    ELSE DecimalValue(SubSeq(d, 1, Len(d) - 1)) * 10 + DigitVal(d[Len(d)])

(* d is decimal(n): digits only, no leading zero, standing for n.          *)
IsDecimalOf(d, n) ==
    /\ Len(d) >= 1
    /\ \A i \in 1..Len(d) : IsDigit(d[i])
    /\ Len(d) > 1 => d[1] # "0"
    /\ DecimalValue(d) = n

(* C31: create_bytes writes '+' t CRLF for Simple(t), '-' t CRLF for       *)
(* Error(t), ':' decimal(n) CRLF for Integer(n), "$-1" CRLF for Null and   *)
(* '$' decimal(len(b)) CRLF b CRLF for Bulk(b), byte for byte.             *)
C31_CreateBytesIsBitExact ==
    (fphase = "encoded" /\ frm.t # "Array") =>
        /\ frm.t = "Simple" => buf = <<"+">> \o frm.s \o <<CR, LF>>
        /\ frm.t = "Error" => buf = <<"-">> \o frm.s \o <<CR, LF>>
        /\ frm.t = "Integer" =>
              LET d == SubSeq(buf, 2, Len(buf) - 2)
              IN IsDecimalOf(d, frm.n) /\ buf = <<":">> \o d \o <<CR, LF>>
        /\ frm.t = "Null" => buf = <<"$", "-", "1", CR, LF>>
        /\ frm.t = "Bulk" =>
              LET d == SubSeq(buf, 2, Len(buf) - Len(frm.s) - 4)
              IN /\ IsDecimalOf(d, Len(frm.s))
                 /\ buf = <<"$">> \o d \o <<CR, LF>> \o frm.s \o <<CR, LF>>
        /\ frm = Simple(<<"a">>) => buf = <<"+", "a", CR, LF>>
        /\ frm = Error(<<"a">>) => buf = <<"-", "a", CR, LF>>
        /\ frm = Integer(10) => buf = <<":", "1", "0", CR, LF>>
        /\ frm = Bulk(<<"a">>) => buf = <<"$", "1", CR, LF, "a", CR, LF>>

(* test_create_bytes' Integer(10) has been encoded as ":10\r\n".           *)
C31_Witness ==
    /\ fphase = "encoded"
    /\ frm = Integer(10)
    /\ buf = <<":", "1", "0", CR, LF>>

----------------------------------------------------------------------------
(* Claims about the in-memory set, the purge pass and the purge task's     *)
(* wakeups.                                                                *)

(* Worker w takes the locked part of a set in this step.                   *)
SetLockedBy(w) ==
    /\ backend = MiniRedis
    /\ wpc[w] = "apply" /\ wcmd[w].t = "Set"
    /\ wpc'[w] # "apply"

(* C32: the set goes on to notify the purge task exactly when, before its  *)
(* own tuple was inserted, expirations was empty or every tuple in it was  *)
(* strictly later than the new expires_at; nothing is sent in the locked   *)
(* step, the notification is a later step of its own that leaves the state *)
(* under the lock alone, and a set that does not need it sends none.       *)
C32_NotifyIffNewEarliest ==
    [][/\ \A w \in Workers :
             /\ SetLockedBy(w) =>
                   /\ wpc'[w] \in {"notify", "reply"}
                   /\ (wpc'[w] = "notify") <=>
                          (\/ expirations = {}
                           \/ \A e \in expirations : now + TTL < e.when)
                   /\ permit' = permit
             /\ (wpc[w] = "notify" /\ wpc'[w] # "notify") =>
                   /\ permit'
                   /\ wpc'[w] = "reply"
                   /\ UNCHANGED <<entries, expirations, next_id, shutdown>>
       /\ (permit' /\ ~permit) =>
             \/ \E w \in Workers : wpc[w] = "notify" /\ wpc'[w] = "reply"
             \/ shutdown' /\ ~shutdown]_vars

(* A second set, on another key and at a later instant, is past its locked *)
(* part and does not notify; the first set's notification was sent.        *)
C32_Witness ==
    /\ backend = MiniRedis
    /\ \E w \in Workers :
          /\ wpc[w] = "reply" /\ wcmd[w].t = "Set"
          /\ ~wtmp[w].notify
          /\ \E e \in expirations : e.key # wcmd[w].key /\ e.when < now + TTL
    /\ Cardinality(expirations) = 2

(* The purge task runs one pass of purge_expired_keys with shutdown not    *)
(* set in this step.                                                       *)
PurgePass == ppc = "purge" /\ ~shutdown /\ ppc' # "purge"

(* C33: one purge pass removes, in one step, exactly the tuples with       *)
(* when <= now and the entries of their keys, and returns the smallest     *)
(* when that remains, None when none does; an entry whose own expires_at   *)
(* is later than now stays as it is.                                       *)
C33_PurgePassRemovesExpiredOnly ==
    [][PurgePass =>
         /\ expirations' = {e \in expirations : e.when > now}
         /\ \A k \in Keys :
               /\ (\E e \in expirations : e.when <= now /\ e.key = k) => ~entries'[k].some
               /\ ~(\E e \in expirations : e.when <= now /\ e.key = k) =>
                      entries'[k] = entries[k]
               /\ (entries[k].some /\ entries[k].v.expires_at.v > now) =>
                      entries'[k] = entries[k]
         /\ IF expirations' = {}
            THEN ppc' = "park"
            ELSE /\ ppc' = "sleep"
                 /\ \E e \in expirations' : e.when = pwhen'
                 /\ \A e \in expirations' : pwhen' <= e.when
         /\ UNCHANGED <<next_id, shutdown, permit>>]_vars

(* A pass has removed the expired "a" with its tuple and sleeps until the  *)
(* expiry of "a,b", which was set later and is still in the store.         *)
C33_Witness ==
    /\ backend = MiniRedis
    /\ ppc = "sleep"
    /\ hist.memLast[KeyA].some
    /\ now >= hist.memLast[KeyA].v.at + TTL
    /\ ~entries[KeyA].some
    /\ entries[KeyAB].some
    /\ expirations = {Expiration(pwhen, entries[KeyAB].v.id, KeyAB)}
    /\ pwhen > now

----------------------------------------------------------------------------
(* Claims about check and parse on the same buffer.                        *)

(* C34 as claimed: whenever check returned Ok on a buffer, parse from the  *)
(* same position returns Ok as well and stops where check stopped.         *)
C34_ParseAgreesWithCheck ==
    (Buffered /\ fres.op = "parse") =>
        /\ fres.res = "Ok"
        /\ fres.pos = Check(buf, 0, -1, build).pos

(* b is '$', a decimal length and "\r\n", then at least length + 2 bytes; *)
(* BulkTail is the two bytes behind the length payload bytes.              *)
BulkHeader(b) == GetDecimal(b, 1, -1, build)

HasBulkShape(b) ==
    /\ Len(b) >= 2 /\ b[1] = "$" /\ b[2] # "-"
    /\ BulkHeader(b).res = "Ok"
    /\ Len(b) >= BulkHeader(b).pos + BulkHeader(b).v + 2

BulkTail(b) ==
    SubSeq(b, BulkHeader(b).pos + BulkHeader(b).v + 1,
              BulkHeader(b).pos + BulkHeader(b).v + 2)

(* C35 as claimed: check and parse reject, as a protocol error, a Bulk     *)
(* whose payload is not followed by exactly "\r\n".                        *)
C35_BulkNeedsCrLf ==
    (/\ Buffered
     /\ fres.op \in {"check", "parse"}
     /\ HasBulkShape(buf)
     /\ BulkTail(buf) # <<CR, LF>>)
        => fres.res = "Error"

(* C36 as claimed: a Bulk whose declared length L fits the length type     *)
(* while L + 2 does not is answered by check and by parse with Incomplete  *)
(* or a protocol error: no Ok over a shorter span, no panic.               *)
C36_BulkSpanDoesNotOverflow ==
    (/\ Buffered
     /\ fres.op \in {"check", "parse"}
     /\ Len(buf) >= 2 /\ buf[1] = "$" /\ buf[2] # "-"
     /\ BulkHeader(buf).res = "Ok"
     /\ BulkHeader(buf).v <= U64_MAX
     /\ BulkSpan(BulkHeader(buf).v) > U64_MAX)
        => fres.res \in {"Incomplete", "Error"}

----------------------------------------------------------------------------
(* Claims about the wakeups of the purge task.                             *)

(* The purge task waits and nothing in expirations is due before it wakes  *)
(* by itself: no tuple at all when it is parked, none before the deadline  *)
(* when it sleeps.                                                         *)
WaitCoversExpirations ==
    /\ ppc = "park" => expirations = {}
    /\ ppc = "sleep" => \A e \in expirations : e.when >= pwhen

(* A set has left the lock with notify = true and has not yet called       *)
(* notify_one.                                                             *)
NotifyOnItsWay == \E w \in Workers : wpc[w] = "notify" /\ wtmp[w].notify

(* C37 as claimed: while the purge task waits and shutdown is not set, a   *)
(* permit is pending or the wait covers every tuple in expirations.        *)
C37_NoLostWakeup ==
    (backend = MiniRedis /\ ~shutdown /\ ppc \in {"park", "sleep"})
        => (permit \/ WaitCoversExpirations)

(* C37, amended: ... a permit is pending, or a set that computed           *)
(* notify = true under the lock is about to call notify_one, or the wait   *)
(* covers every tuple in expirations.                                      *)
C37_NoLostWakeupOnceNotified ==
    (backend = MiniRedis /\ ~shutdown /\ ppc \in {"park", "sleep"})
        => (permit \/ NotifyOnItsWay \/ WaitCoversExpirations)

(* The task is parked, a set has inserted the only tuple and released the  *)
(* lock, and its notify_one has not happened yet.                          *)
C37_Witness ==
    /\ backend = MiniRedis
    /\ ~shutdown
    /\ ppc = "park"
    /\ ~permit
    /\ Cardinality(expirations) = 1
    /\ NotifyOnItsWay

----------------------------------------------------------------------------
(* Claims about the append-log store across a restart and on failure.      *)

(* Every set so far has returned Ok, and all were on keys without ','.     *)
OnlyCompletedPlainSets ==
    /\ hist.faults = 0
    /\ \A w \in Workers : wpc[w] \in {"read", "closed"}
    /\ \A k \in Keys : HasComma(k) => hist.nSets[k] = 0

(* C38 as claimed: after completed sets of keys and values without ',' and *)
(* '\n', a restart rebuilds the index the store had, and every get         *)
(* returns after the restart what it returned before.                      *)
C38_RecoverRebuildsLiveIndex ==
    [][(OnlyCompletedPlainSets /\ hist'.restarts = hist.restarts + 1) =>
          /\ index' = index
          /\ \A k \in Keys : LogGet(index', file', k) = LogGet(index, file, k)]_vars

(* The file holds, from offset on, the whole record of a set on key k.     *)
WholeRecordAt(f, offset, k) ==
    \E v \in Vals \cup {ValCR} :
        /\ Len(f) >= offset + Len(Record(k, v))
        /\ SubSeq(f, offset + 1, offset + Len(Record(k, v))) = Record(k, v)

(* C39: a set that fails at the file returns the error and leaves the      *)
(* index as it was; the index changes only in the insert of a set whose    *)
(* record is whole in the file, so every offset in the index has a whole   *)
(* record of its key behind it.                                            *)
C39_FailedSetLeavesIndex ==
    /\ [](\A k \in Keys : index[k].some => WholeRecordAt(file, index[k].v, k))
    /\ [][/\ \A w \in Workers :
               (wpc[w] = "apply" /\ wcmd[w].t = "Set" /\ wpc'[w] = "closed") =>
                   (index' = index /\ replies' = replies /\ hist'.failed[w])
          /\ index' # index =>
               \E w \in Workers :
                   /\ wpc[w] = "index" /\ wpc'[w] = "reply"
                   /\ file' = file
                   /\ file = SubSeq(file, 1, wtmp[w].off)
                                \o Record(wcmd[w].key, wcmd[w].value)
                                \o SubSeq(file, wtmp[w].off + Len(Record(wcmd[w].key, wcmd[w].value)) + 1,
                                          Len(file))
                   /\ index' = [index EXCEPT ![wcmd[w].key] = Some(wtmp[w].off)]]_vars

(* A set of "a" has failed with part of its record in the file, the        *)
(* connection is closed and the index is still empty.                      *)
C39_Witness ==
    /\ backend = SimpleStore
    /\ hist.faults > 0
    /\ hist.nSets[KeyA] = 1 /\ hist.nSets[KeyAB] = 0
    /\ file # <<>> /\ file[Len(file)] # LF
    /\ \A k \in Keys : ~index[k].some
    /\ \E w \in Workers : wpc[w] = "closed" /\ hist.failed[w]

----------------------------------------------------------------------------
(* Claims about get on both stores.                                        *)

(* Worker w takes a step of a GET in this step: the store call, or the     *)
(* reply after it.                                                         *)
GetCallBy(w) == wpc[w] = "apply" /\ wcmd[w].t = "Get" /\ wpc'[w] # "apply"
GetReplyBy(w) == wpc[w] = "reply" /\ wcmd[w].t = "Get" /\ wpc'[w] # "reply"

(* C40: a get changes nothing in either store: entries, expirations,       *)
(* next_id, shutdown and the purge task's permit on the in-memory store,   *)
(* index and file on the append-log store; an entry that has expired and   *)
(* was not purged yet is returned and stays.                               *)
C40_GetIsReadOnly ==
    [][\A w \in Workers :
          /\ (GetCallBy(w) \/ GetReplyBy(w)) =>
                UNCHANGED <<entries, expirations, next_id, shutdown, permit, ppc, pwhen,
                            index, file>>
          /\ (GetCallBy(w) /\ backend = MiniRedis /\ entries[wcmd[w].key].some) =>
                /\ wpc'[w] = "reply"
                /\ wtmp'[w].resp = Bulk(entries[wcmd[w].key].v.data)]_vars

(* A GET holds the value of an entry that is past its expires_at and still *)
(* in the store, the purge task not having run.                            *)
C40_Witness ==
    /\ backend = MiniRedis
    /\ \E w \in Workers :
          /\ wpc[w] = "reply" /\ wcmd[w].t = "Get"
          /\ entries[wcmd[w].key].some
          /\ entries[wcmd[w].key].v.expires_at.v <= now
          /\ wtmp[w].resp = Bulk(entries[wcmd[w].key].v.data)

====
